---- MODULE Spec2Model ----
(***************************************************************************)
(* The multi-leg portfolio Kelly optimizer of src/src/portfolio.rs as a    *)
(* state machine: one call of calculate_portfolio_kelly or                 *)
(* calculate_portfolio_kelly_correlated, stepped through the loops of      *)
(* solve_with_states.                                                      *)
(*                                                                         *)
(* Numbers.  The program computes in f64: binary floating point, every     *)
(* operation rounded to the nearest representable value, ties to even.     *)
(* The model computes in the same kind of format with a significand of     *)
(* Precision bits instead of 53 and an unbounded exponent.  A finite       *)
(* value is the pair <<m, e>> standing for m * 2^e, with m = 0 = e or      *)
(* 2^(Precision-1) <= |m| < 2^Precision, so that equal numbers are equal   *)
(* pairs.  Every source constant is the source's value rounded into the    *)
(* format; MAX_TOTAL_ALLOCATION, which has to stay below 1, is the value   *)
(* 1 - 2^-4 (the source's 0.999999 is 1 - 10^-6).                          *)
(***************************************************************************)
EXTENDS Integers, Sequences, FiniteSets, TLC

\* ------------------------------------------------------------------ f64

\* Width of the significand (53 in f64).
Precision == 8

\* The exponent that marks an infinity: <<-1, InfExp>> and <<1, InfExp>>.
InfExp == 9999

\* Binary digits after the point in LnTable and LN_2.
LnScale == 22

Abs(n) == IF n < 0 THEN -n ELSE n

Sgn(n) == IF n < 0 THEN -1 ELSE IF n > 0 THEN 1 ELSE 0

RECURSIVE BitLen(_)
BitLen(a) == IF a = 0 THEN 0 ELSE 1 + BitLen(a \div 2)

\* The value n * 2^e rounded to Precision bits, ties to even.
Norm(n, e) ==
    IF n = 0 THEN <<0, 0>>
    ELSE LET a  == Abs(n)
             L  == BitLen(a)
         IN  IF L <= Precision
             THEN <<Sgn(n) * a * 2^(Precision - L), e - (Precision - L)>>
             ELSE LET sh   == L - Precision
                      q    == a \div 2^sh
                      r    == a % 2^sh
                      half == 2^(sh - 1)
                      q1   == IF r > half \/ (r = half /\ q % 2 = 1)
                              THEN q + 1 ELSE q
                  IN  IF q1 = 2^Precision
                      THEN <<Sgn(n) * 2^(Precision - 1), e + sh + 1>>
                      ELSE <<Sgn(n) * q1, e + sh>>

Zero == <<0, 0>>

One == Norm(1, 0)

NEG_INFINITY == <<-1, InfExp>>

INFINITY == <<1, InfExp>>

IsFinite(x) == x[2] # InfExp

Neg(x) == <<-x[1], x[2]>>

FAbs(x) == <<Abs(x[1]), x[2]>>

\* x + y of two finite values.  An addend below an eighth of the other's
\* last place does not change the rounded sum.
AddOrdered(x, y) ==
    LET k == x[2] - y[2]
    IN  IF k > Precision + 2 THEN x ELSE Norm(x[1] * 2^k + y[1], y[2])

Add(x, y) ==
    IF x[1] = 0 THEN y
    ELSE IF y[1] = 0 THEN x
    ELSE IF x[2] >= y[2] THEN AddOrdered(x, y) ELSE AddOrdered(y, x)

Sub(x, y) == Add(x, Neg(y))

Mul(x, y) == Norm(x[1] * y[1], x[2] + y[2])

\* x / y of two finite values, y # 0: the quotient to Precision + 2 bits and
\* a sticky bit for the remainder, then rounded.
Div(x, y) ==
    IF x[1] = 0 THEN Zero
    ELSE LET a == Abs(x[1]) * 2^(Precision + 2)
             b == Abs(y[1])
             s == IF a % b = 0 THEN 0 ELSE 1
         IN  Norm(Sgn(x[1]) * Sgn(y[1]) * (2 * (a \div b) + s),
                  x[2] - y[2] - Precision - 3)

\* x < y; an infinity compares by its sign.
Less(x, y) ==
    IF x = y THEN FALSE
    ELSE IF ~IsFinite(x) THEN x[1] < 0
    ELSE IF ~IsFinite(y) THEN y[1] > 0
    ELSE Sub(x, y)[1] < 0

LessEq(x, y) == x = y \/ Less(x, y)

\* f64::max and f64::min of two values.
FMax(x, y) == IF Less(x, y) THEN y ELSE x

FMin(x, y) == IF Less(y, x) THEN y ELSE x

\* usize as f64.
FromInt(k) == Norm(k, 0)

\* ln(2) * 2^LnScale.
LN_2 == 2907270

\* ln(1 + (i-1) / 2^(Precision-1)) * 2^LnScale, for i = 1 .. 2^(Precision-1).
LnTable == <<
      0, 32641, 65029, 97170, 129066, 160721, 192139, 223324,
      254278, 285006, 315510, 345794, 375861, 405713, 435355, 464789,
      494018, 523044, 551871, 580501, 608937, 637182, 665238, 693107,
      720792, 748296, 775621, 802768, 829741, 856542, 883173, 909635,
      935932, 962065, 988036, 1013847, 1039500, 1064998, 1090341, 1115532,
      1140573, 1165465, 1190210, 1214810, 1239267, 1263582, 1287756, 1311793,
      1335692, 1359456, 1383086, 1406583, 1429950, 1453187, 1476296, 1499279,
      1522136, 1544869, 1567480, 1589970, 1612340, 1634591, 1656724, 1678742,
      1700644, 1722433, 1744109, 1765673, 1787127, 1808473, 1829710, 1850840,
      1871864, 1892783, 1913598, 1934311, 1954922, 1975432, 1995842, 2016154,
      2036367, 2056484, 2076505, 2096430, 2116261, 2135999, 2155645, 2175199,
      2194662, 2214035, 2233319, 2252515, 2271624, 2290645, 2309581, 2328432,
      2347199, 2365882, 2384482, 2403000, 2421436, 2439792, 2458068, 2476264,
      2494382, 2512422, 2530385, 2548271, 2566082, 2583817, 2601477, 2619063,
      2636576, 2654016, 2671384, 2688680, 2705905, 2723059, 2740144, 2757160,
      2774106, 2790985, 2807796, 2824539, 2841217, 2857828, 2874373, 2890854 >>

\* f64::ln of a finite x > 0: with x = (m / 2^(Precision-1)) * 2^E,
\* ln x = E * ln 2 + ln(m / 2^(Precision-1)), rounded.
Ln(x) ==
    Norm((x[2] + Precision - 1) * LN_2 + LnTable[x[1] - 2^(Precision - 1) + 1],
         -LnScale)

\* ------------------------------------------------- constants of portfolio.rs

\* 0.999999 in the source: the largest total allocation, below 1.
MAX_TOTAL_ALLOCATION == Norm(15, -4)

\* The iteration budget of solve_with_states (800 in the source).
MAX_ITERATIONS == 12

\* The backtracking candidates of one iteration: for _ in 0..24.
MAX_BACKTRACKS == 24

\* 1e-12
IMPROVEMENT_EPS == Norm(141, -47)

\* 1e-10
CONVERGENCE_OBJECTIVE_DELTA == Norm(220, -41)

\* 1e-15
STATE_PROB_EPS == Norm(144, -57)

\* 1e-12, the tolerance of single_leg_kelly_fraction's comparisons.
KELLY_EPS == Norm(141, -47)

\* 1e-10, the smallest trial step.
MIN_LOCAL_STEP == Norm(220, -41)

\* 0.25, the first step size.
INITIAL_STEP == Norm(1, -2)

\* A variant that doubles the step after an accepted candidate.
STEP_GROWTH_DOUBLE == Norm(2, 0)

\* 1.15, the growth of the step after an accepted candidate.
STEP_GROWTH == Norm(147, -7)

\* 0.5, the shrinking of the trial step after a rejected candidate.
STEP_SHRINK == Norm(1, -1)

\* The sum of the first k elements of v, added left to right from 0.0.
RECURSIVE SumTo(_, _)
SumTo(v, k) == IF k = 0 THEN Zero ELSE Add(SumTo(v, k - 1), v[k])

Sum(v) == SumTo(v, Len(v))

\* ------------------------------------------------------- outcome states

\* A variant that reads bit i + 1 where bit i is meant.
BitSetFromOne(mask, i) == (mask \div 2^(i + 1)) % 2 = 1

\* Bit i (from 0) of mask.
BitSet(mask, i) == (mask \div 2^i) % 2 = 1

\* A variant that multiplies by win_prob whether the leg wins or loses.
RECURSIVE MaskProbWinOnly(_, _, _)
MaskProbWinOnly(legs, mask, k) ==
    IF k = 0 THEN One
    ELSE Mul(MaskProbWinOnly(legs, mask, k - 1), legs[k].win_prob)

\* prob after the first k legs of the loop over legs, for one mask.
RECURSIVE MaskProb(_, _, _)
MaskProb(legs, mask, k) ==
    IF k = 0 THEN One
    ELSE Mul(MaskProb(legs, mask, k - 1),
             IF BitSet(mask, k - 1)
             THEN legs[k].win_prob
             ELSE Sub(One, legs[k].win_prob))

enumerate_independent_states(legs) ==
    [m \in 1 .. 2^Len(legs) |->
        [prob    |-> MaskProb(legs, m - 1, Len(legs)),
         returns |-> [i \in 1 .. Len(legs) |->
                        IF BitSet(m - 1, i - 1)
                        THEN legs[i].win_return
                        ELSE legs[i].loss_return]]]

\* The three assertions of states_from_scenarios, for one scenario.
ScenarioValid(leg_count, scenario) ==
    /\ IsFinite(scenario.probability)
    /\ LessEq(Zero, scenario.probability)
    /\ Len(scenario.returns) = leg_count
    /\ \A i \in 1 .. Len(scenario.returns) : IsFinite(scenario.returns[i])

\* Whether states_from_scenarios panics.
ScenariosPanic(leg_count, scenarios) ==
    \E k \in 1 .. Len(scenarios) : ~ScenarioValid(leg_count, scenarios[k])

\* A variant that rescales the probabilities to sum to 1.
states_from_scenarios_normalised(leg_count, scenarios) ==
    LET total == Sum([k \in 1 .. Len(scenarios) |-> scenarios[k].probability])
    IN  [k \in 1 .. Len(scenarios) |->
            [prob    |-> Div(scenarios[k].probability, total),
             returns |-> scenarios[k].returns]]

states_from_scenarios(leg_count, scenarios) ==
    [k \in 1 .. Len(scenarios) |->
        [prob    |-> scenarios[k].probability,
         returns |-> scenarios[k].returns]]

\* ------------------------------------------------ objective and gradient

Min2(a, b) == IF a < b THEN a ELSE b

\* allocations.iter().zip(returns.iter()).map(|(f, r)| f * r).sum()
Dot(allocations, returns) ==
    Sum([i \in 1 .. Min2(Len(allocations), Len(returns)) |->
            Mul(allocations[i], returns[i])])

state_wealth(allocations, returns) == Add(One, Dot(allocations, returns))

\* The loop of objective_and_gradient from state k on, with the objective
\* and the gradient accumulated so far.
RECURSIVE ObjectiveLoop(_, _, _, _, _)
ObjectiveLoop(allocations, states, k, objective, gradient) ==
    IF k > Len(states) THEN [objective |-> objective, gradient |-> gradient]
    ELSE LET state  == states[k]
             wealth == state_wealth(allocations, state.returns)
         IN  IF LessEq(wealth, Zero)
             THEN [objective |-> NEG_INFINITY, gradient |-> gradient]
             ELSE ObjectiveLoop(allocations, states, k + 1,
                    Add(objective, Mul(state.prob, Ln(wealth))),
                    [i \in 1 .. Len(gradient) |->
                        IF i <= Len(state.returns)
                        THEN Add(gradient[i],
                                 Div(Mul(state.prob, state.returns[i]), wealth))
                        ELSE gradient[i]])

objective_and_gradient(allocations, states) ==
    ObjectiveLoop(allocations, states, 1, Zero,
                  [i \in 1 .. Len(allocations) |-> Zero])

expected_arithmetic_return(allocations, states) ==
    Sum([k \in 1 .. Len(states) |->
            Mul(states[k].prob, Dot(allocations, states[k].returns))])

\* ---------------------------------------------------- simplex projection

\* v with x inserted before the first element smaller than x.
RECURSIVE InsertDesc(_, _)
InsertDesc(v, x) ==
    IF v = <<>> THEN <<x>>
    ELSE IF Less(Head(v), x) THEN <<x>> \o v
    ELSE <<Head(v)>> \o InsertDesc(Tail(v), x)

\* sorted.sort_by(|a, b| b.partial_cmp(a)): descending order.
RECURSIVE SortDesc(_)
SortDesc(v) ==
    IF v = <<>> THEN <<>> ELSE InsertDesc(SortDesc(Tail(v)), Head(v))

\* The loop that looks for theta, from index i (from 1) on; cumulative is
\* the sum of the elements before i.  theta stays 0.0 when no index breaks.
RECURSIVE ThetaLoop(_, _, _, _)
ThetaLoop(sorted, cap, i, cumulative) ==
    IF i > Len(sorted) THEN Zero
    ELSE LET cum  == Add(cumulative, sorted[i])
             t    == Div(Sub(cum, cap), Add(FromInt(i - 1), One))
             next == IF i + 1 <= Len(sorted) THEN sorted[i + 1]
                     ELSE NEG_INFINITY
         IN  IF LessEq(next, t) THEN t
             ELSE ThetaLoop(sorted, cap, i + 1, cum)

\* A variant that returns the values unclamped when their sum is within
\* the cap: a negative value stays negative.
project_to_simplex_unclamped(values, cap) ==
    LET non_negative == [i \in 1 .. Len(values) |-> FMax(values[i], Zero)]
        theta        == ThetaLoop(SortDesc(non_negative), cap, 1, Zero)
    IN  IF LessEq(Sum(values), cap) THEN values
        ELSE [i \in 1 .. Len(values) |->
                FMax(Sub(non_negative[i], theta), Zero)]

project_to_simplex(values, cap) ==
    LET non_negative == [i \in 1 .. Len(values) |-> FMax(values[i], Zero)]
        sum          == Sum(non_negative)
        theta        == ThetaLoop(SortDesc(non_negative), cap, 1, Zero)
    IN  IF LessEq(sum, cap) THEN non_negative
        ELSE [i \in 1 .. Len(values) |->
                FMax(Sub(non_negative[i], theta), Zero)]

\* -------------------------------------------------------- initial guess

\* A variant without the allocation of the cap to a deterministic positive
\* payoff: equal returns give 0.0.
single_leg_kelly_fraction_no_sure_gain(leg) ==
    LET u == leg.win_return
        d == leg.loss_return
        p == leg.win_prob
        q == Sub(One, p)
        f == Div(Neg(Add(Mul(p, u), Mul(q, d))), Mul(u, d))
    IN  IF ~(IsFinite(u) /\ IsFinite(d) /\ IsFinite(p)) THEN Zero
        ELSE IF Less(FAbs(Sub(u, d)), KELLY_EPS) THEN Zero
        ELSE IF Less(FAbs(u), KELLY_EPS) \/ Less(FAbs(d), KELLY_EPS) THEN Zero
        ELSE IF ~IsFinite(f) \/ LessEq(f, Zero) THEN Zero ELSE f

\* A variant that keeps a negative fraction instead of discarding it.
single_leg_kelly_fraction_keeps_negative(leg) ==
    LET u == leg.win_return
        d == leg.loss_return
        p == leg.win_prob
        q == Sub(One, p)
        f == Div(Neg(Add(Mul(p, u), Mul(q, d))), Mul(u, d))
    IN  IF ~(IsFinite(u) /\ IsFinite(d) /\ IsFinite(p)) THEN Zero
        ELSE IF Less(FAbs(Sub(u, d)), KELLY_EPS)
             THEN (IF Less(Zero, u) THEN MAX_TOTAL_ALLOCATION ELSE Zero)
        ELSE IF Less(FAbs(u), KELLY_EPS) \/ Less(FAbs(d), KELLY_EPS) THEN Zero
        ELSE IF ~IsFinite(f) THEN Zero ELSE f

single_leg_kelly_fraction(leg) ==
    LET u == leg.win_return
        d == leg.loss_return
        p == leg.win_prob
        q == Sub(One, p)
        f == Div(Neg(Add(Mul(p, u), Mul(q, d))), Mul(u, d))
    IN  IF ~(IsFinite(u) /\ IsFinite(d) /\ IsFinite(p)) THEN Zero
        ELSE IF Less(FAbs(Sub(u, d)), KELLY_EPS)
             THEN (IF Less(Zero, u) THEN MAX_TOTAL_ALLOCATION ELSE Zero)
        ELSE IF Less(FAbs(u), KELLY_EPS) \/ Less(FAbs(d), KELLY_EPS) THEN Zero
        ELSE IF ~IsFinite(f) \/ LessEq(f, Zero) THEN Zero ELSE f

\* A variant that fills the budget leg by leg: each leg takes its own Kelly
\* fraction or what the legs before it left, the smaller of the two.
RECURSIVE GreedyFill(_, _, _)
GreedyFill(fractions, k, left) ==
    IF k > Len(fractions) THEN <<>>
    ELSE LET take == FMin(FMax(fractions[k], Zero), left)
         IN  <<take>> \o GreedyFill(fractions, k + 1, Sub(left, take))

initial_allocations_greedy(legs) ==
    GreedyFill([i \in 1 .. Len(legs) |-> single_leg_kelly_fraction(legs[i])],
               1, MAX_TOTAL_ALLOCATION)

initial_allocations_independent(legs) ==
    project_to_simplex([i \in 1 .. Len(legs) |->
                           single_leg_kelly_fraction(legs[i])],
                       MAX_TOTAL_ALLOCATION)

\* edges after the first k states of the loop over states.
RECURSIVE EdgesTo(_, _, _)
EdgesTo(leg_count, states, k) ==
    IF k = 0 THEN [i \in 1 .. leg_count |-> Zero]
    ELSE LET edges == EdgesTo(leg_count, states, k - 1)
         IN  [i \in 1 .. leg_count |->
                IF i <= Len(states[k].returns)
                THEN Add(edges[i], Mul(states[k].prob, states[k].returns[i]))
                ELSE edges[i]]

\* A variant whose edges are assigned, not accumulated: they are the last
\* state's terms.
initial_allocations_correlated_last_state(leg_count, states) ==
    LET last  == states[Len(states)]
        edges == [i \in 1 .. leg_count |->
                    IF i <= Len(last.returns)
                    THEN Mul(last.prob, last.returns[i]) ELSE Zero]
    IN  project_to_simplex([i \in 1 .. leg_count |-> FMax(edges[i], Zero)],
                           MAX_TOTAL_ALLOCATION)

initial_allocations_correlated(leg_count, states) ==
    LET edges == EdgesTo(leg_count, states, Len(states))
    IN  project_to_simplex([i \in 1 .. leg_count |-> FMax(edges[i], Zero)],
                           MAX_TOTAL_ALLOCATION)

\* ---------------------------------------------------- solve_with_states

\* A variant whose worst case is the 0.0 that the loop's path reports when
\* no state counts.
DefaultResultWorstCaseZero(leg_count) ==
    [allocations                |-> [i \in 1 .. leg_count |-> Zero],
     total_allocation           |-> Zero,
     expected_log_growth        |-> Zero,
     expected_arithmetic_return |-> Zero,
     worst_case_multiplier      |-> Zero,
     converged                  |-> TRUE,
     iterations                 |-> 0]

\* The record returned when there is no leg or no state.
DefaultResult(leg_count) ==
    [allocations                |-> [i \in 1 .. leg_count |-> Zero],
     total_allocation           |-> Zero,
     expected_log_growth        |-> Zero,
     expected_arithmetic_return |-> Zero,
     worst_case_multiplier      |-> One,
     converged                  |-> TRUE,
     iterations                 |-> 0]

\* The local variables of solve_with_states before the first iteration.
\* objective, gradient, improved, accepted_improvement and local_step are
\* declared inside the loop; they hold these values until an iteration
\* sets them.
EnterLoop(allocations0) ==
    [allocations          |-> allocations0,
     step                 |-> INITIAL_STEP,
     iterations           |-> 0,
     converged            |-> FALSE,
     objective            |-> Zero,
     gradient             |-> [i \in 1 .. Len(allocations0) |-> Zero],
     improved             |-> FALSE,
     accepted_improvement |-> Zero,
     local_step           |-> INITIAL_STEP,
     attempts             |-> 0,
     pc                   |-> "iterate"]

\* The head of the outer loop's body: count the iteration, evaluate the
\* current allocation, leave the loop on a non-finite objective, else reset
\* the variables of the backtracking loop.
begin_iteration(sts, l) ==
    LET og == objective_and_gradient(l.allocations, sts)
    IN  IF ~IsFinite(og.objective)
        THEN [l EXCEPT !.iterations = @ + 1,
                       !.objective  = og.objective,
                       !.gradient   = og.gradient,
                       !.pc         = "assemble"]
        ELSE [l EXCEPT !.iterations           = @ + 1,
                       !.objective            = og.objective,
                       !.gradient             = og.gradient,
                       !.improved             = FALSE,
                       !.accepted_improvement = Zero,
                       !.local_step           = l.step,
                       !.attempts             = 0,
                       !.pc                   = "backtrack"]

\* The candidate of one pass of the backtracking loop, projected.
ProjectedCandidate(l) ==
    project_to_simplex(
        [i \in 1 .. Len(l.allocations) |->
            Add(l.allocations[i], Mul(l.local_step, l.gradient[i]))],
        MAX_TOTAL_ALLOCATION)

\* A variant of the acceptance test that takes any candidate whose
\* objective differs from the threshold, a worse or an infeasible one too.
AcceptsAnyChange(objective, next_objective) ==
    next_objective # Add(objective, IMPROVEMENT_EPS)

\* The acceptance test of a candidate's objective.
Accepts(objective, next_objective) ==
    Less(Add(objective, IMPROVEMENT_EPS), next_objective)

\* A variant of the backtracking loop without the bound of 24 passes: only
\* the size of the step ends it.
try_candidate_unbounded(sts, l) ==
    LET projected      == ProjectedCandidate(l)
        next_objective == objective_and_gradient(projected, sts).objective
        shrunk         == Mul(l.local_step, STEP_SHRINK)
    IN  IF Accepts(l.objective, next_objective)
        THEN [l EXCEPT !.attempts             = @ + 1,
                       !.accepted_improvement = Sub(next_objective, l.objective),
                       !.allocations          = projected,
                       !.step                 = FMin(Mul(l.local_step, STEP_GROWTH), One),
                       !.improved             = TRUE,
                       !.pc                   = "end_iteration"]
        ELSE [l EXCEPT !.attempts   = @ + 1,
                       !.local_step = shrunk,
                       !.pc         = IF Less(shrunk, MIN_LOCAL_STEP)
                                      THEN "end_iteration"
                                      ELSE "backtrack"]

\* One pass of the backtracking loop.
try_candidate(sts, l) ==
    LET projected      == ProjectedCandidate(l)
        next_objective == objective_and_gradient(projected, sts).objective
        shrunk         == Mul(l.local_step, STEP_SHRINK)
    IN  IF Accepts(l.objective, next_objective)
        THEN [l EXCEPT !.attempts             = @ + 1,
                       !.accepted_improvement = Sub(next_objective, l.objective),
                       !.allocations          = projected,
                       !.step                 = FMin(Mul(l.local_step, STEP_GROWTH), One),
                       !.improved             = TRUE,
                       !.pc                   = "end_iteration"]
        ELSE [l EXCEPT !.attempts   = @ + 1,
                       !.local_step = shrunk,
                       !.pc         = IF \/ Less(shrunk, MIN_LOCAL_STEP)
                                         \/ l.attempts + 1 = MAX_BACKTRACKS
                                      THEN "end_iteration"
                                      ELSE "backtrack"]

\* A variant that reports convergence when the budget runs out as well.
end_iteration_budget_converges(l) ==
    IF ~l.improved \/ Less(l.accepted_improvement, CONVERGENCE_OBJECTIVE_DELTA)
    THEN [l EXCEPT !.converged = TRUE, !.pc = "assemble"]
    ELSE IF l.iterations = MAX_ITERATIONS
    THEN [l EXCEPT !.converged = TRUE, !.pc = "assemble"]
    ELSE [l EXCEPT !.pc = "iterate"]

\* The end of the outer loop's body, and the loop's own test.
end_iteration(l) ==
    IF ~l.improved \/ Less(l.accepted_improvement, CONVERGENCE_OBJECTIVE_DELTA)
    THEN [l EXCEPT !.converged = TRUE, !.pc = "assemble"]
    ELSE IF l.iterations = MAX_ITERATIONS
    THEN [l EXCEPT !.pc = "assemble"]
    ELSE [l EXCEPT !.pc = "iterate"]

\* A variant of the fold that takes the wealth of every state, whatever
\* its probability.
RECURSIVE WorstCaseOfAll(_, _, _, _)
WorstCaseOfAll(allocations, sts, k, acc) ==
    IF k > Len(sts) THEN acc
    ELSE WorstCaseOfAll(allocations, sts, k + 1,
            FMin(acc, state_wealth(allocations, sts[k].returns)))

\* The fold of f64::min from INFINITY over the wealth of the states whose
\* probability exceeds STATE_PROB_EPS, from state k on.
RECURSIVE WorstCaseFrom(_, _, _, _)
WorstCaseFrom(allocations, sts, k, acc) ==
    IF k > Len(sts) THEN acc
    ELSE WorstCaseFrom(allocations, sts, k + 1,
            IF Less(STATE_PROB_EPS, sts[k].prob)
            THEN FMin(acc, state_wealth(allocations, sts[k].returns))
            ELSE acc)

\* The result record built after the loop.
assemble_result(sts, l) ==
    LET worst_case_multiplier == WorstCaseFrom(l.allocations, sts, 1, INFINITY)
    IN  [allocations                |-> l.allocations,
         total_allocation           |-> Sum(l.allocations),
         expected_log_growth        |-> objective_and_gradient(l.allocations, sts).objective,
         expected_arithmetic_return |-> expected_arithmetic_return(l.allocations, sts),
         worst_case_multiplier      |-> IF IsFinite(worst_case_multiplier)
                                        THEN worst_case_multiplier ELSE Zero,
         converged                  |-> l.converged,
         iterations                 |-> l.iterations]

\* The optimizer's loop from the local variables l to the end of the loop.
RECURSIVE RunLoop(_, _)
RunLoop(sts, l) ==
    IF l.pc = "assemble" THEN l
    ELSE RunLoop(sts, IF l.pc = "iterate" THEN begin_iteration(sts, l)
                      ELSE IF l.pc = "backtrack" THEN try_candidate(sts, l)
                      ELSE end_iteration(l))

\* solve_with_states as a function of its arguments.
solve_with_states(leg_count, sts, allocations0) ==
    IF leg_count = 0 \/ Len(sts) = 0 THEN DefaultResult(leg_count)
    ELSE assemble_result(sts, RunLoop(sts, EnterLoop(allocations0)))

\* ----------------------------------------------- f64 with special values

\* The operations of the collaborators take what a parsed argument can be:
\* a finite value, an infinity or a NaN.  (Zero has no sign here.)
NAN == <<0, InfExp>>

IsNaN(x) == x = NAN

F64Add(x, y) ==
    IF IsNaN(x) \/ IsNaN(y) THEN NAN
    ELSE IF ~IsFinite(x) THEN (IF ~IsFinite(y) /\ y # x THEN NAN ELSE x)
    ELSE IF ~IsFinite(y) THEN y
    ELSE Add(x, y)

F64Sub(x, y) == F64Add(x, Neg(y))

F64Mul(x, y) ==
    IF IsNaN(x) \/ IsNaN(y) THEN NAN
    ELSE IF ~IsFinite(x) \/ ~IsFinite(y)
         THEN (IF x[1] = 0 \/ y[1] = 0 THEN NAN
               ELSE <<Sgn(x[1]) * Sgn(y[1]), InfExp>>)
    ELSE Mul(x, y)

F64Div(x, y) ==
    IF IsNaN(x) \/ IsNaN(y) THEN NAN
    ELSE IF ~IsFinite(x)
         THEN (IF ~IsFinite(y) THEN NAN
               ELSE <<Sgn(x[1]) * (IF y[1] < 0 THEN -1 ELSE 1), InfExp>>)
    ELSE IF ~IsFinite(y) THEN Zero
    ELSE IF y[1] = 0
         THEN (IF x[1] = 0 THEN NAN ELSE <<Sgn(x[1]), InfExp>>)
    ELSE Div(x, y)

\* The comparisons: every comparison with a NaN is false.
Lt(x, y) == ~IsNaN(x) /\ ~IsNaN(y) /\ Less(x, y)

Le(x, y) == ~IsNaN(x) /\ ~IsNaN(y) /\ LessEq(x, y)

Gt(x, y) == Lt(y, x)

Ge(x, y) == Le(y, x)

\* Iterator::sum::<f64>: the items added in order, from 0.0.  F64SumFrom
\* adds xs[lo .. hi] to acc one after the other, left to right; a NaN
\* stays a NaN.
RECURSIVE F64SumFrom(_, _, _, _)
F64SumFrom(acc, xs, lo, hi) ==
    IF lo > hi \/ IsNaN(acc) THEN acc
    ELSE IF lo = hi THEN F64Add(acc, xs[lo])
    ELSE LET mid == (lo + hi) \div 2
         IN  F64SumFrom(F64SumFrom(acc, xs, lo, mid), xs, mid + 1, hi)

F64Sum(xs) == F64SumFrom(Zero, xs, 1, Len(xs))

\* ------------------------------------------------------------ arbitrage.rs

\* calculate_arbitrage from its total_implied_prob on.
two_way_result(total_implied_prob, odds1, odds2) ==
    IF Lt(total_implied_prob, One)
    THEN [has_arbitrage      |-> TRUE,
          total_implied_prob |-> total_implied_prob,
          arbitrage_profit   |-> F64Sub(F64Div(One, total_implied_prob), One),
          juice_rate         |-> Zero,
          stake1_ratio       |-> F64Div(odds2, F64Add(odds1, odds2)),
          stake2_ratio       |-> F64Div(odds1, F64Add(odds1, odds2))]
    ELSE [has_arbitrage      |-> FALSE,
          total_implied_prob |-> total_implied_prob,
          arbitrage_profit   |-> Zero,
          juice_rate         |-> F64Sub(total_implied_prob, One),
          stake1_ratio       |-> Zero,
          stake2_ratio       |-> Zero]

\* calculate_arbitrage: two odds.
calculate_arbitrage(odds1, odds2) ==
    two_way_result(F64Add(F64Div(One, odds1), F64Div(One, odds2)),
                   odds1, odds2)

\* calculate_multi_arbitrage from its total_implied_prob on.
multi_way_result(total_implied_prob, odds) ==
    IF Lt(total_implied_prob, One)
    THEN [has_arbitrage      |-> TRUE,
          total_implied_prob |-> total_implied_prob,
          arbitrage_profit   |-> F64Sub(F64Div(One, total_implied_prob), One),
          juice_rate         |-> Zero,
          stake_ratios       |->
              [i \in 1 .. Len(odds) |->
                  F64Div(F64Div(One, odds[i]), total_implied_prob)]]
    ELSE [has_arbitrage      |-> FALSE,
          total_implied_prob |-> total_implied_prob,
          arbitrage_profit   |-> Zero,
          juice_rate         |-> F64Sub(total_implied_prob, One),
          stake_ratios       |-> [i \in 1 .. Len(odds) |-> Zero]]

\* calculate_multi_arbitrage: any number of odds.
calculate_multi_arbitrage(odds) ==
    multi_way_result(F64Sum([i \in 1 .. Len(odds) |-> F64Div(One, odds[i])]),
                     odds)

\* ------------------------------------------------------------------ text

\* Option<T>.
None == [some |-> FALSE]

Some(v) == [some |-> TRUE, value |-> v]

\* Result<T, String>.
Ok(v) == [ok |-> TRUE, value |-> v]

Err(e) == [ok |-> FALSE, error |-> e]

\* A piece of text without ':' and ',' is what it reads as and what
\* str::parse makes of it as an f64 and as a usize.
Number(x) == [text  |-> "number",
              f64   |-> Ok(x),
              usize |-> Err("invalid digit")]

Count(n) == [text  |-> "count",
             f64   |-> Ok(FromInt(n)),
             usize |-> Ok(n)]

Name(t) == [text  |-> t,
            f64   |-> Err("invalid float literal"),
            usize |-> Err("invalid digit")]

\* A string is the sequence of its parts between ':', each part the
\* sequence of its pieces between ','.
Str(piece) == << <<piece>> >>

Joined(pieces) == << pieces >>

Descriptor(parts) == [i \in 1 .. Len(parts) |-> parts[i][1]]

IsPlain(s) == Len(s) = 1 /\ Len(s[1]) = 1

\* str::contains(':').
ContainsColon(s) == Len(s) > 1

\* str::split(':') and, of a part, str::split(',').
SplitColon(s) == [i \in 1 .. Len(s) |-> <<s[i]>>]

SplitComma(s) == [i \in 1 .. Len(s[1]) |-> Str(s[1][i])]

\* str::parse::<f64>() and str::parse::<usize>().
str_parse_f64(s) ==
    IF IsPlain(s) THEN s[1][1].f64 ELSE Err("invalid float literal")

str_parse_usize(s) ==
    IF IsPlain(s) THEN s[1][1].usize ELSE Err("invalid digit")

\* str::to_lowercase() of a part, as far as a match on it tells.
to_lowercase(s) == IF IsPlain(s) THEN s[1][1].text ELSE "other"

\* ---------------------------------------------------------- validation.rs

HUNDRED == FromInt(100)

\* The ? operator: the error of r, else f of its value.
AndThen(r, f(_)) == IF r.ok THEN f(r.value) ELSE r

parse_f64(input, field_name) ==
    LET r == str_parse_f64(input)
    IN  IF r.ok THEN r ELSE Err(field_name \o " must be a number")

parse_odds(input, field_name) ==
    AndThen(parse_f64(input, field_name),
            LAMBDA odds :
                IF Gt(odds, One) THEN Ok(odds)
                ELSE Err(field_name \o " must be greater than 1.0"))

parse_percent(input, field_name) ==
    AndThen(parse_f64(input, field_name),
            LAMBDA percent :
                IF Le(Zero, percent) /\ Le(percent, HUNDRED)
                THEN Ok(F64Div(percent, HUNDRED))
                ELSE Err(field_name \o " must be between 0 and 100"))

parse_market_price(input) ==
    AndThen(parse_f64(input, "market price"),
            LAMBDA percent :
                IF Gt(percent, Zero) /\ Le(percent, HUNDRED)
                THEN Ok(F64Div(percent, HUNDRED))
                ELSE Err("market price must be between 0 and 100, not 0"))

parse_positive(input, field_name) ==
    AndThen(parse_f64(input, field_name),
            LAMBDA value :
                IF Gt(value, Zero) THEN Ok(value)
                ELSE Err(field_name \o " must be positive"))

\* ------------------------------------------------------ cli.rs: parsers

\* The value is the parsed number over 100.
ReturnPercent(value, field_name) ==
    IF Lt(value, Neg(One))
    THEN Err(field_name \o " must not be below -100%")
    ELSE Ok(value)

parse_return_percent(input, field_name) ==
    AndThen(parse_f64(input, field_name),
            LAMBDA parsed : ReturnPercent(F64Div(parsed, HUNDRED), field_name))

probability_sum_tolerance(scenario_count) ==
    F64Add(F64Mul(FromInt(scenario_count), Norm(210, -22)), Norm(137, -37))

\* ----------------------------------------------------------------- nash.rs

\* 1e-10, rounded.
EPS == Norm(220, -41)

nearly_eq(a, b) == Le(FAbs(F64Sub(a, b)), EPS)

in_unit_interval(v) == Ge(v, Neg(EPS)) /\ Le(v, F64Add(One, EPS))

\* f64::clamp(0.0, 1.0) of a value that is no NaN.
clamp(v) == IF Lt(v, Zero) THEN Zero ELSE IF Gt(v, One) THEN One ELSE v

clamp01(v) ==
    IF nearly_eq(v, Zero) THEN Zero
    ELSE IF nearly_eq(v, One) THEN One
    ELSE clamp(v)

\* A payoff matrix is <<<<m00, m01>>, <<m10, m11>>>>: strategy i of the row
\* player and j of the column player, counted from 0, is matrix[i + 1][j + 1].
expected_payoff(matrix, p, q) ==
    F64Add(F64Add(F64Add(F64Mul(F64Mul(p, q), matrix[1][1]),
                         F64Mul(F64Mul(p, F64Sub(One, q)), matrix[1][2])),
                  F64Mul(F64Mul(F64Sub(One, p), q), matrix[2][1])),
           F64Mul(F64Mul(F64Sub(One, p), F64Sub(One, q)), matrix[2][2]))

\* The test of the inner loop of find_pure_equilibria for the cell (i, j).
is_pure_equilibrium_row_only(row_payoffs, col_payoffs, i, j) ==
    Ge(row_payoffs[i + 1][j + 1], F64Sub(row_payoffs[2 - i][j + 1], EPS))

is_pure_equilibrium(row_payoffs, col_payoffs, i, j) ==
    /\ Ge(row_payoffs[i + 1][j + 1], F64Sub(row_payoffs[2 - i][j + 1], EPS))
    /\ Ge(col_payoffs[i + 1][j + 1], F64Sub(col_payoffs[i + 1][2 - j], EPS))

\* The cells in the order of the loops.
Cells == << <<0, 0>>, <<0, 1>>, <<1, 0>>, <<1, 1>> >>

NashPureEquilibrium(row_payoffs, col_payoffs, c) ==
    [row_strategy |-> c[1],
     col_strategy |-> c[2],
     row_payoff   |-> row_payoffs[c[1] + 1][c[2] + 1],
     col_payoff   |-> col_payoffs[c[1] + 1][c[2] + 1]]

PureCells(row_payoffs, col_payoffs) ==
    SelectSeq(Cells, LAMBDA c :
        is_pure_equilibrium(row_payoffs, col_payoffs, c[1], c[2]))

find_pure_equilibria(row_payoffs, col_payoffs) ==
    [k \in 1 .. Len(PureCells(row_payoffs, col_payoffs)) |->
        NashPureEquilibrium(row_payoffs, col_payoffs,
                            PureCells(row_payoffs, col_payoffs)[k])]

\* The denominators of the indifference conditions.
row_denom(row_payoffs) ==
    F64Add(F64Sub(F64Sub(row_payoffs[1][1], row_payoffs[1][2]),
                  row_payoffs[2][1]),
           row_payoffs[2][2])

col_denom(col_payoffs) ==
    F64Add(F64Sub(F64Sub(col_payoffs[1][1], col_payoffs[2][1]),
                  col_payoffs[1][2]),
           col_payoffs[2][2])

\* q makes the row player indifferent, p the column player.
indifference_q(row_payoffs) ==
    F64Div(F64Sub(row_payoffs[2][2], row_payoffs[1][2]), row_denom(row_payoffs))

indifference_p(col_payoffs) ==
    F64Div(F64Sub(col_payoffs[2][2], col_payoffs[2][1]), col_denom(col_payoffs))

NashMixedEquilibrium(row_payoffs, col_payoffs, p, q) ==
    [row_top_prob        |-> p,
     col_left_prob       |-> q,
     row_expected_payoff |-> expected_payoff(row_payoffs, p, q),
     col_expected_payoff |-> expected_payoff(col_payoffs, p, q)]

\* find_mixed_equilibrium from the range test on.
mixed_from(row_payoffs, col_payoffs, p, q) ==
    IF ~in_unit_interval(p) \/ ~in_unit_interval(q) THEN None
    ELSE Some(NashMixedEquilibrium(row_payoffs, col_payoffs,
                                   clamp01(p), clamp01(q)))

find_mixed_equilibrium(row_payoffs, col_payoffs) ==
    IF \/ Le(FAbs(row_denom(row_payoffs)), EPS)
       \/ Le(FAbs(col_denom(col_payoffs)), EPS)
    THEN None
    ELSE mixed_from(row_payoffs, col_payoffs,
                    indifference_p(col_payoffs), indifference_q(row_payoffs))

calculate_nash_2x2(row_payoffs, col_payoffs) ==
    [pure_equilibria   |-> find_pure_equilibria(row_payoffs, col_payoffs),
     mixed_equilibrium |-> find_mixed_equilibrium(row_payoffs, col_payoffs)]

\* ------------------------------------------------------------ display.rs

\* The convergence status print_result_portfolio prints for a result: the
\* text for "converged" or the text for "reached the iteration limit".
ConvergenceStatus(r) ==
    IF r.converged THEN "converged" ELSE "reached the iteration limit"

\* --------------------------------------------------------------- inputs

\* The largest number of legs of a call.
MaxLegs == 2

\* The largest number of scenarios of a correlated call.
MaxScenarios == 2

Leg(p, u, d) == [win_prob |-> p, win_return |-> u, loss_return |-> d]

Scenario(q, r) == [probability |-> q, returns |-> r]

\* The legs of the independent calls, <<win_prob, win_return, loss_return>>:
\* the odds-2 bet with win probability 0.6 (rounded) and without edge, a
\* longer shot, a leg that can lose three times its stake, a certain win, a
\* deterministic payoff, a leg without loss, a leg that loses a little in
\* both outcomes and a deterministic payoff below the rounding unit of 1.0.
LegTypes ==
    { Leg(Norm(154, -8), One, Neg(One)),
      Leg(Norm(3, -3), One, Neg(One)),
      Leg(Norm(1, -1), Norm(2, 0), Neg(One)),
      Leg(Norm(7, -3), Norm(2, 0), Norm(-3, 0)),
      Leg(One, One, Neg(One)),
      Leg(One, Norm(1, -4), Norm(1, -4)),
      Leg(Norm(1, -1), One, Zero),
      Leg(Norm(1, -1), Norm(-1, -6), Norm(-1, -5)),
      Leg(Norm(1, -1), Norm(1, -10), Norm(1, -10)) }

\* The scenarios of the correlated calls: for one leg and for two legs,
\* with probability zero, with a negligible weight, with returns in the
\* thousands (which leave room for tiny allocations only), with a return
\* whose edge is far above the cap, and the ones
\* states_from_scenarios rejects (a negative or infinite probability, an
\* infinite return).
ScenarioTypes ==
    { Scenario(One, <<Norm(1, -2)>>),
      Scenario(Norm(1, -1), <<Norm(-1, -3)>>),
      Scenario(Zero, <<Norm(-2, 0)>>),
      Scenario(Norm(1, -27), <<Norm(1, 11)>>),
      Scenario(Norm(1, -1), <<Norm(1, 11)>>),
      Scenario(Norm(1, -1), <<Norm(1, 6)>>),
      Scenario(Norm(1, -1), <<Neg(One)>>),
      Scenario(Norm(1, -1), <<Norm(-1, 10)>>),
      Scenario(Norm(1, -1), <<Norm(1, -2), Norm(-1, -3)>>),
      Scenario(Norm(1, -1), <<Norm(-1, -3), Norm(1, -2)>>),
      Scenario(Norm(1, -1), <<One, Norm(-1, -1)>>),
      Scenario(Norm(1, -1), <<Norm(-1, -1), One>>),
      Scenario(Norm(1, -1), <<Norm(1, -3), Norm(-1, -2)>>),
      Scenario(Norm(1, -1), <<Norm(-1, -2), Norm(1, -3)>>),
      Scenario(Norm(1, -1), <<Norm(1, -2), Norm(1, -2)>>),
      Scenario(Norm(1, -1), <<One, One>>),
      Scenario(Norm(1, -1), <<Norm(-7, -3), Norm(-7, -3)>>),
      Scenario(Norm(-1, -1), <<Norm(1, -2)>>),
      Scenario(INFINITY, <<Norm(1, -2)>>),
      Scenario(Norm(1, -1), <<INFINITY>>) }

\* The sequences over S of length at most n.
SeqsUpTo(S, n) == UNION { [1 .. k -> S] : k \in 0 .. n }

\* ------------------------------------------------------ portfolio_input.rs

build_standard_leg(odds, win_rate) ==
    Leg(win_rate, F64Sub(odds, One), Neg(One))

build_polymarket_leg(market_price, your_probability) ==
    LET odds == F64Div(One, market_price)
    IN  Leg(your_probability, F64Sub(odds, One), Neg(One))

build_stock_leg(entry_price, target_price, stop_loss, win_rate) ==
    IF Le(target_price, entry_price) \/ Ge(stop_loss, entry_price)
    THEN Err("target must be above and stop below the entry price")
    ELSE Ok(Leg(win_rate,
                F64Div(F64Sub(target_price, entry_price), entry_price),
                F64Div(Neg(F64Sub(entry_price, stop_loss)), entry_price)))

\* The leg of an arbitrage result: its profit, or minus its juice, for sure.
deterministic_leg(r) == Leg(One, r, r)

arbitrage_return(res) ==
    IF res.has_arbitrage THEN res.arbitrage_profit ELSE Neg(res.juice_rate)

build_arbitrage_two_leg(odds1, odds2) ==
    deterministic_leg(arbitrage_return(calculate_arbitrage(odds1, odds2)))

build_arbitrage_multi_leg(odds) ==
    deterministic_leg(arbitrage_return(calculate_multi_arbitrage(odds)))

\* The results of a loop that returns at its first error: the values when
\* all are Ok, else the first Err.
Collect(results) ==
    IF \A i \in 1 .. Len(results) : results[i].ok
    THEN Ok([i \in 1 .. Len(results) |-> results[i].value])
    ELSE results[CHOOSE i \in 1 .. Len(results) :
                     /\ ~results[i].ok
                     /\ \A j \in 1 .. i - 1 : results[j].ok]

\* parse_portfolio_leg_descriptor: std:odds:rate, pm:price:probability,
\* stock:entry:target:stop:rate, arb:odds1:odds2, marb:odds1,odds2,...
parse_descriptor_parts(parts, kind) ==
    IF Len(parts) = 0 THEN Err("empty descriptor")
    ELSE IF kind \in {"std", "standard"}
    THEN IF Len(parts) # 3 THEN Err("expected std:odds:rate")
         ELSE AndThen(parse_odds(parts[2], "odds"), LAMBDA odds :
              AndThen(parse_percent(parts[3], "win rate"), LAMBDA win_rate :
              Ok(build_standard_leg(odds, win_rate))))
    ELSE IF kind \in {"pm", "polymarket"}
    THEN IF Len(parts) # 3 THEN Err("expected pm:price:probability")
         ELSE AndThen(parse_market_price(parts[2]), LAMBDA market_price :
              AndThen(parse_percent(parts[3], "your probability"),
                      LAMBDA your_prob :
              Ok(build_polymarket_leg(market_price, your_prob))))
    ELSE IF kind \in {"stock", "stk"}
    THEN IF Len(parts) # 5 THEN Err("expected stock:entry:target:stop:rate")
         ELSE AndThen(parse_positive(parts[2], "entry price"), LAMBDA entry :
              AndThen(parse_positive(parts[3], "target price"), LAMBDA target :
              AndThen(parse_positive(parts[4], "stop price"), LAMBDA stop :
              AndThen(parse_percent(parts[5], "win rate"), LAMBDA win_rate :
              build_stock_leg(entry, target, stop, win_rate)))))
    ELSE IF kind = "arb"
    THEN IF Len(parts) # 3 THEN Err("expected arb:odds1:odds2")
         ELSE AndThen(parse_odds(parts[2], "odds 1"), LAMBDA odds1 :
              AndThen(parse_odds(parts[3], "odds 2"), LAMBDA odds2 :
              Ok(build_arbitrage_two_leg(odds1, odds2))))
    ELSE IF kind = "marb"
    THEN IF Len(parts) # 2 THEN Err("expected marb:odds1,odds2,...")
         ELSE AndThen(Collect([i \in 1 .. Len(SplitComma(parts[2])) |->
                          parse_odds(SplitComma(parts[2])[i], "odds")]),
                      LAMBDA odds :
                          IF Len(odds) < 2
                          THEN Err("marb needs at least 2 odds")
                          ELSE Ok(build_arbitrage_multi_leg(odds)))
    ELSE Err("unsupported leg kind")

parse_portfolio_leg_descriptor(token) ==
    parse_descriptor_parts(SplitColon(token), to_lowercase(<<token[1]>>))

\* ---------------------------------------------------- cli.rs: handlers

\* RangeInclusive::contains of lo..=hi.
RangeContainsUnbounded(lo, hi, n) == lo <= n

RangeContains(lo, hi, n) == lo <= n /\ n <= hi

\* Vec<String>::iter().filter(|a| a != flag).
WithoutFlag(args, flag) == SelectSeq(args, LAMBDA a : a # Str(Name(flag)))

\* The trailing capital, when there is one.
parse_capital(has_capital, last) ==
    IF has_capital
    THEN AndThen(parse_positive(last, "capital"), LAMBDA v : Ok(Some(v)))
    ELSE Ok(None)

\* The scenarios of the parsed fields: a probability, then leg_count returns.
scenarios_of(fields, leg_count, scenario_count) ==
    [s \in 1 .. scenario_count |->
        [probability |-> fields[(s - 1) * (1 + leg_count) + 1],
         returns     |-> [i \in 1 .. leg_count |->
                             fields[(s - 1) * (1 + leg_count) + 1 + i]]]]

\* handle_portfolio_correlated from the probability sum on.
correlated_request(leg_count, scenarios, c_args, has_capital) ==
    IF Gt(FAbs(F64Sub(F64Sum([s \in 1 .. Len(scenarios) |->
                                 scenarios[s].probability]),
                      One)),
          probability_sum_tolerance(Len(scenarios)))
    THEN Err("scenario probabilities must sum to about 100%")
    ELSE AndThen(parse_capital(has_capital, c_args[Len(c_args)]),
                 LAMBDA capital :
                     Ok([request   |-> "PortfolioCorrelated",
                         leg_count |-> leg_count,
                         scenarios |-> scenarios,
                         capital   |-> capital]))

\* handle_portfolio_correlated from the argument count on; idx runs over
\* c_args[3 ..].
correlated_scenarios(c_args, leg_count, scenario_count) ==
    LET expected_min == 3 + scenario_count * (1 + leg_count)
        has_capital  == Len(c_args) = expected_min + 1
    IN  IF Len(c_args) # expected_min /\ ~has_capital
        THEN Err("argument count does not match")
        ELSE AndThen(
                 Collect([k \in 1 .. scenario_count * (1 + leg_count) |->
                     IF (k - 1) % (1 + leg_count) = 0
                     THEN parse_percent(c_args[3 + k], "scenario probability")
                     ELSE parse_return_percent(c_args[3 + k],
                                               "scenario return")]),
                 LAMBDA fields :
                     correlated_request(
                         leg_count,
                         scenarios_of(fields, leg_count, scenario_count),
                         c_args, has_capital))

\* handle_portfolio_correlated: Err(message) where it emits an error and
\* returns, else Ok(the ModeRequest it hands to execute_mode).
handle_portfolio_correlated(args) ==
    LET c_args         == WithoutFlag(args, "-K")
        parsed_legs    == str_parse_usize(c_args[2])
        parsed_count   == str_parse_usize(c_args[3])
    IN  IF Len(c_args) < 3 THEN Err("too few arguments")
        ELSE IF ~parsed_legs.ok THEN Err("leg count must be a number")
        ELSE IF ~RangeContains(1, 12, parsed_legs.value)
             THEN Err("leg count must be between 1 and 12")
        ELSE IF ~parsed_count.ok THEN Err("scenario count must be a number")
        ELSE IF ~RangeContains(2, 128, parsed_count.value)
             THEN Err("scenario count must be between 2 and 128")
        ELSE correlated_scenarios(c_args, parsed_legs.value,
                                  parsed_count.value)

\* The error of the descriptor form for a capital that does not parse.
capital_error(capital) ==
    IF capital.ok THEN capital
    ELSE Err("bad descriptor or capital: " \o capital.error)

\* handle_portfolio, the descriptor form, from the leg count on.
descriptor_request(legs, capital) ==
    IF Len(legs) < 2 THEN Err("at least 2 legs are needed")
    ELSE IF Len(legs) > 12 THEN Err("at most 12 legs are supported")
    ELSE Ok([request |-> "Portfolio", legs |-> legs, capital |-> capital])

\* The descriptors p_args[1 .. end], each with a ':'.
descriptor_legs(p_args, end) ==
    Collect([k \in 1 .. end - 1 |->
                IF ~ContainsColon(p_args[k + 1])
                THEN Err("expected a descriptor such as std:2.0:60")
                ELSE parse_portfolio_leg_descriptor(p_args[k + 1])])

\* handle_portfolio, the descriptor form: -k <descriptor> ... [capital].
handle_portfolio_descriptors(p_args, has_capital) ==
    AndThen(capital_error(parse_capital(has_capital, p_args[Len(p_args)])),
            LAMBDA capital :
    AndThen(descriptor_legs(p_args, IF has_capital THEN Len(p_args) - 1
                                    ELSE Len(p_args)),
            LAMBDA legs : descriptor_request(legs, capital)))

\* The legs of the parsed odds and win rates.
standard_legs(fields, count) ==
    [i \in 1 .. count |-> build_standard_leg(fields[2 * i - 1], fields[2 * i])]

\* handle_portfolio, the count form, from the argument count on.
count_request(p_args, count, has_capital) ==
    IF Len(p_args) # 2 + count * 2 /\ ~has_capital
    THEN Err("argument count does not match")
    ELSE AndThen(Collect([k \in 1 .. 2 * count |->
                     IF k % 2 = 1
                     THEN parse_odds(p_args[2 + k], "odds")
                     ELSE parse_percent(p_args[2 + k], "win rate")]),
                 LAMBDA fields :
         AndThen(parse_capital(has_capital, p_args[Len(p_args)]),
                 LAMBDA capital :
                     Ok([request |-> "Portfolio",
                         legs    |-> standard_legs(fields, count),
                         capital |-> capital])))

\* handle_portfolio, the count form: -k <count> <odds> <rate> ... [capital].
handle_portfolio_count(p_args, count) ==
    IF ~RangeContains(2, 12, count)
    THEN Err("leg count must be between 2 and 12")
    ELSE count_request(p_args, count, Len(p_args) = 2 + count * 2 + 1)

handle_portfolio(args) ==
    LET p_args == WithoutFlag(args, "-k")
    IN  IF Len(p_args) < 2 THEN Err("too few arguments")
        ELSE IF ~str_parse_usize(p_args[2]).ok
             THEN handle_portfolio_descriptors(
                      p_args,
                      Len(p_args) > 2 /\ ~ContainsColon(p_args[Len(p_args)]))
        ELSE handle_portfolio_count(p_args, str_parse_usize(p_args[2]).value)

\* ------------------------------------------------- command-line inputs

Repeat(x, n) == [i \in 1 .. n |-> x]

Bo == Str(Name("bo"))

Flag(f) == Str(Name(f))

IntArg(n) == Str(Count(n))

NumArg(x) == Str(Number(x))

Kind(k) == Str(Name(k))

\* Leg descriptors: well-formed ones of every kind, and ones with a wrong
\* number of parts, a value out of range, an unknown kind, infinite odds.
DescriptorTypes ==
    { Descriptor(<<Kind("std"), IntArg(2), IntArg(60)>>),
      Descriptor(<<Kind("std"), IntArg(1), IntArg(60)>>),
      Descriptor(<<Kind("std"), IntArg(2), IntArg(101)>>),
      Descriptor(<<Kind("std"), NumArg(INFINITY), IntArg(60)>>),
      Descriptor(<<Kind("standard"), IntArg(3)>>),
      Descriptor(<<Kind("pm"), IntArg(40), IntArg(60)>>),
      Descriptor(<<Kind("pm"), IntArg(0), IntArg(60)>>),
      Descriptor(<<Kind("stock"), IntArg(100), IntArg(120), IntArg(90), IntArg(55)>>),
      Descriptor(<<Kind("stock"), IntArg(100), IntArg(90), IntArg(95), IntArg(55)>>),
      Descriptor(<<Kind("arb"), IntArg(3), IntArg(3)>>),
      Descriptor(<<Kind("arb"), IntArg(2), Kind("x")>>),
      Descriptor(<<Kind("marb"), Joined(<<Count(3), Count(4), Count(5)>>)>>),
      Descriptor(<<Kind("marb"), IntArg(3)>>),
      Descriptor(<<Kind("foo"), IntArg(1), IntArg(2)>>),
      Kind("abc") }

\* What may follow the legs: nothing, a capital, a capital of 0, a word.
CapitalTypes == { <<>>, <<IntArg(1000)>>, <<IntArg(0)>>, <<Kind("abc")>> }

\* bo -k <descriptor> ... [capital]: up to two descriptors of any type,
\* and 11 to 13 well-formed ones.
DescriptorArgs ==
    { <<Bo, Flag("-k")>> \o ds \o cap :
        ds \in SeqsUpTo(DescriptorTypes, 2)
               \cup { Repeat(Descriptor(<<Kind("std"), IntArg(2), IntArg(60)>>), n) :
                        n \in 11 .. 13 },
        cap \in CapitalTypes }

\* bo -k <count> <odds> <rate> ... [capital]: a count around the limits,
\* as many pairs as the count says or one less or more, the first odds
\* taken from a set with values parse_odds rejects.
CountArgs ==
    { <<Bo, Flag("-k"), IntArg(n)>>
          \o [k \in 1 .. 2 * m |->
                 IF k = 1 THEN odds1 ELSE IF k % 2 = 1 THEN IntArg(2) ELSE IntArg(60)]
          \o cap :
        n \in {0, 1, 2, 3, 12, 13},
        m \in {0, 1, 2, 3, 4, 11, 12, 13, 14},
        odds1 \in {IntArg(2), IntArg(1), Kind("abc")},
        cap \in CapitalTypes }

\* bo -K <legs> <scenarios> <p> <r> ... [capital] with the given number of
\* rows, probability p in every row and r as the first return.
CorrelatedLine(n, m, rows, p, r, cap) ==
    <<Bo, Flag("-K"), IntArg(n), IntArg(m)>>
        \o [k \in 1 .. rows * (1 + n) |->
               IF (k - 1) % (1 + n) = 0 THEN p
               ELSE IF k = 2 THEN r ELSE IntArg(20)]
        \o cap

\* Counts around the lower limits, one row more or less than announced,
\* probabilities that sum to 100% or not, returns at and below -100%,
\* infinite or NaN; and counts around the upper limits 12 and 128.
CorrelatedArgs ==
    { CorrelatedLine(n, m, rows, p, r, cap) :
        n \in {0, 1, 2},
        m \in {1, 2, 3},
        rows \in {2, 3},
        p \in {IntArg(50), IntArg(100), IntArg(101)},
        r \in {IntArg(20), NumArg(FromInt(-100)), NumArg(FromInt(-101)),
               NumArg(NAN), NumArg(INFINITY), Kind("abc")},
        cap \in {<<>>, <<IntArg(1000)>>} }
    \cup
    { CorrelatedLine(n, 2, 2, IntArg(50), IntArg(20), <<>>) : n \in {12, 13} }
    \cup
    { CorrelatedLine(n, m, m, NumArg(Norm(25, -5)), IntArg(20), <<>>) :
        n \in {1, 12},
        m \in {128, 129} }

\* Too few arguments, and counts that are no numbers.
ShortArgs ==
    { <<Bo, Flag("-k")>>, <<Bo, Flag("-K")>>, <<Bo, Flag("-K"), IntArg(2)>>,
      <<Bo, Flag("-K"), Kind("abc"), IntArg(2)>>,
      <<Bo, Flag("-K"), IntArg(2), Kind("abc")>>,
      <<Bo, IntArg(2), Flag("-k"), IntArg(2), IntArg(60), IntArg(2), IntArg(60)>> }

CliArgs == DescriptorArgs \cup CountArgs \cup CorrelatedArgs \cup ShortArgs

\* ------------------------------------------------- function inputs

\* Odds as parse_odds returns them: above 1.0, among them the odds of the
\* tests of arbitrage.rs (rounded), the smallest odds above 1 and infinity.
OddsTypes ==
    { Norm(129, -7), Norm(165, -7), Norm(3, -1), Norm(243, -7), FromInt(2),
      Norm(134, -6), Norm(5, -1), FromInt(3), Norm(230, -6), FromInt(4),
      Norm(134, -5), Norm(146, -4), INFINITY }

\* The odds of the multi-way calls.
MultiOddsTypes ==
    { Norm(230, -7), FromInt(2), Norm(5, -1), Norm(230, -6), FromInt(4),
      Norm(134, -5), INFINITY }

\* Payoff matrices: the games of the tests of nash.rs, the battle of the
\* sexes, every matrix of 0 and 1, payoffs that differ by less and by more
\* than EPS, a NaN and an infinite payoff (parse_f64 reads both).
Matrix(a, b, c, d) == << <<a, b>>, <<c, d>> >>

PRISONER_ROW == Matrix(FromInt(3), Zero, FromInt(5), One)

PRISONER_COL == Matrix(FromInt(3), FromInt(5), Zero, One)

COORDINATION == Matrix(FromInt(4), Zero, Zero, FromInt(2))

PENNIES_ROW == Matrix(One, Neg(One), Neg(One), One)

PENNIES_COL == Matrix(Neg(One), One, One, Neg(One))

MatrixTypes ==
    { PRISONER_ROW, PRISONER_COL, COORDINATION, PENNIES_ROW, PENNIES_COL,
      Matrix(FromInt(3), FromInt(2), One, Zero),
      Matrix(One, FromInt(2), FromInt(3), FromInt(4)),
      Matrix(FromInt(2), Zero, Zero, One),
      Matrix(One, Zero, Zero, FromInt(2)),
      Matrix(Zero, Norm(1, -34), Norm(1, -34), Zero),
      Matrix(Zero, Norm(1, -32), Norm(1, -32), Zero),
      Matrix(Norm(1, -34), Zero, Zero, One),
      Matrix(NAN, Zero, Zero, One),
      Matrix(INFINITY, Zero, Zero, One) }
    \cup { Matrix(a, b, c, d) : a \in {Zero, One}, b \in {Zero, One},
                                c \in {Zero, One}, d \in {Zero, One} }

\* The texts handed to the parsers: numbers at and around the limits 0, 1,
\* -100 and 100, "nan", "inf" and "-inf" (str::parse::<f64> reads all
\* three), a word, the empty text and a text with a ':'.
TextTypes ==
    { NumArg(x) : x \in { FromInt(-101), Norm(-201, -1), FromInt(-100),
                          Norm(-199, -1), Neg(One), Norm(-1, -20), Norm(1, -20),
                          Norm(1, -1), Norm(9, -3), Norm(129, -7), Norm(121, -1),
                          Norm(199, -1), Norm(201, -1), NAN, INFINITY,
                          NEG_INFINITY } }
    \cup { IntArg(n) : n \in {0, 1, 2, 50, 60, 100, 101, 1000} }
    \cup { Kind("abc"), Kind(""), Descriptor(<<IntArg(2), IntArg(60)>>) }

\* The vectors handed to project_to_simplex: up to MaxValues components,
\* negative, zero, small, near the cap and far above it.
MaxValues == 3

ValueTypes ==
    { Neg(One), Norm(-1, -3), Zero, Norm(1, -3), Norm(154, -8), Norm(7, -3),
      One, Norm(3, 0), Norm(1, 12) }

\* The cap of every call in portfolio.rs, and a smaller one.
CapTypes == { MAX_TOTAL_ALLOCATION, Norm(1, -1) }

\* The legs handed to single_leg_kelly_fraction: win probabilities from 0
\* to 1; returns negative, zero, below 1e-12, ordinary, and infinite (the
\* win_return of a leg built from the odds "inf").
ProbTypes == { Zero, Norm(3, -3), Norm(1, -1), Norm(154, -8), One }

ReturnTypes ==
    { Norm(-3, 0), Neg(One), Norm(-1, -3), Norm(-1, -41), Zero, Norm(1, -42),
      Norm(1, -41), Norm(1, -3), One, Norm(2, 0), INFINITY }

\* ---------------------------------------------------------- state machine

VARIABLES
    mode,                  \* "independent" or "correlated": the entry point
    legs,                  \* calculate_portfolio_kelly's argument
    leg_count,             \* legs.len(), or the correlated call's leg_count
    scenarios,             \* calculate_portfolio_kelly_correlated's argument
    states,                \* the outcome states
    allocations,           \* solve_with_states's locals ...
    step,
    iterations,
    converged,
    objective,
    gradient,
    improved,
    accepted_improvement,
    local_step,
    attempts,              \* passes of the backtracking loop made so far
    pc,                    \* where the call is
    result,                \* the PortfolioKellyResult, once pc = "done"
    args,                  \* the command line, or a function's arguments
    error,                 \* the error message emitted, "" for none
    capital                \* the capital read from the command line

inputs == <<mode, legs, leg_count, scenarios>>

locals == <<allocations, step, iterations, converged, objective, gradient,
            improved, accepted_improvement, local_step, attempts>>

vars == <<mode, legs, leg_count, scenarios, states, allocations, step,
          iterations, converged, objective, gradient, improved,
          accepted_improvement, local_step, attempts, pc, result,
          args, error, capital>>

cli == <<args, error, capital>>

\* The local variables as a record.
Locals ==
    [allocations          |-> allocations,
     step                 |-> step,
     iterations           |-> iterations,
     converged            |-> converged,
     objective            |-> objective,
     gradient             |-> gradient,
     improved             |-> improved,
     accepted_improvement |-> accepted_improvement,
     local_step           |-> local_step,
     attempts             |-> attempts,
     pc                   |-> pc]

SetLocals(l) ==
    /\ allocations'          = l.allocations
    /\ step'                 = l.step
    /\ iterations'           = l.iterations
    /\ converged'            = l.converged
    /\ objective'            = l.objective
    /\ gradient'             = l.gradient
    /\ improved'             = l.improved
    /\ accepted_improvement' = l.accepted_improvement
    /\ local_step'           = l.local_step
    /\ attempts'             = l.attempts
    /\ pc'                   = l.pc

\* Before the call nothing is computed.
SetLocalsInit ==
    /\ allocations          = <<>>
    /\ step                 = Zero
    /\ iterations           = 0
    /\ converged            = FALSE
    /\ objective            = Zero
    /\ gradient             = <<>>
    /\ improved             = FALSE
    /\ accepted_improvement = Zero
    /\ local_step           = Zero
    /\ attempts             = 0

\* No result yet.
NoResult == [converged |-> FALSE, iterations |-> -1]

Init ==
    /\ \/ /\ mode = "independent"
          /\ legs \in SeqsUpTo(LegTypes, MaxLegs)
          /\ leg_count = Len(legs)
          /\ scenarios = <<>>
       \/ /\ mode = "correlated"
          /\ legs = <<>>
          /\ leg_count \in 0 .. MaxLegs
          /\ scenarios \in SeqsUpTo(ScenarioTypes, MaxScenarios)
    /\ states = <<>>
    /\ SetLocalsInit
    /\ pc = "call"
    /\ result = NoResult
    /\ args = <<>>
    /\ error = ""
    /\ capital = None

\* solve_with_states's first lines: the default record for no leg or no
\* state, else the loop's variables.
Solve(sts, allocations0) ==
    /\ states' = sts
    /\ IF leg_count = 0 \/ Len(sts) = 0
       THEN /\ result' = DefaultResult(leg_count)
            /\ pc' = "done"
            /\ UNCHANGED locals
       ELSE /\ SetLocals(EnterLoop(allocations0))
            /\ UNCHANGED result

\* calculate_portfolio_kelly up to the loop.
CallIndependent ==
    /\ pc = "call"
    /\ mode = "independent"
    /\ Solve(enumerate_independent_states(legs),
             initial_allocations_independent(legs))
    /\ UNCHANGED <<inputs, cli>>

\* calculate_portfolio_kelly_correlated up to the loop; an assertion of
\* states_from_scenarios that fails ends the call without a result.
CallCorrelated ==
    /\ pc = "call"
    /\ mode = "correlated"
    /\ IF ScenariosPanic(leg_count, scenarios)
       THEN /\ pc' = "panicked"
            /\ UNCHANGED <<states, locals, result>>
       ELSE Solve(states_from_scenarios(leg_count, scenarios),
                  initial_allocations_correlated(
                      leg_count, states_from_scenarios(leg_count, scenarios)))
    /\ UNCHANGED <<inputs, cli>>

BeginIteration ==
    /\ pc = "iterate"
    /\ SetLocals(begin_iteration(states, Locals))
    /\ UNCHANGED <<inputs, states, result, cli>>

TryCandidate ==
    /\ pc = "backtrack"
    /\ SetLocals(try_candidate(states, Locals))
    /\ UNCHANGED <<inputs, states, result, cli>>

EndIteration ==
    /\ pc = "end_iteration"
    /\ SetLocals(end_iteration(Locals))
    /\ UNCHANGED <<inputs, states, result, cli>>

AssembleResult ==
    /\ pc = "assemble"
    /\ result' = assemble_result(states, Locals)
    /\ pc' = "done"
    /\ UNCHANGED <<inputs, states, locals, cli>>

Next ==
    \/ CallIndependent
    \/ CallCorrelated
    \/ BeginIteration
    \/ TryCandidate
    \/ EndIteration
    \/ AssembleResult

Spec == Init /\ [][Next]_vars

\* ------------------------------------------------- the command line

\* args.iter().any(|a| a == flag).
HasFlag(flag) == \E k \in 1 .. Len(args) : args[k] = Flag(flag)

\* The process before handle_args dispatches.
CliInit ==
    /\ args \in CliArgs
    /\ error = ""
    /\ capital = None
    /\ mode = "none"
    /\ legs = <<>>
    /\ leg_count = 0
    /\ scenarios = <<>>
    /\ states = <<>>
    /\ SetLocalsInit
    /\ pc = "cli"
    /\ result = NoResult

\* emit_error and return.
EmitError(message) ==
    /\ error' = message
    /\ pc' = "error"
    /\ UNCHANGED <<inputs, capital>>

\* execute_mode with ModeRequest::Portfolio up to its call of
\* calculate_portfolio_kelly(&legs): pc = "call" is where Spec starts.
execute_mode(request) ==
    /\ mode' = "independent"
    /\ legs' = request.legs
    /\ leg_count' = Len(request.legs)
    /\ scenarios' = <<>>
    /\ capital' = request.capital
    /\ pc' = "call"
    /\ UNCHANGED error

\* execute_mode with ModeRequest::PortfolioCorrelated up to its call of
\* calculate_portfolio_kelly_correlated(leg_count, &scenarios).
execute_mode_correlated(request) ==
    /\ mode' = "correlated"
    /\ legs' = <<>>
    /\ leg_count' = request.leg_count
    /\ scenarios' = request.scenarios
    /\ capital' = request.capital
    /\ pc' = "call"
    /\ UNCHANGED error

\* handle_args with -K among the arguments.
HandlePortfolioCorrelated ==
    /\ pc = "cli"
    /\ HasFlag("-K")
    /\ LET r == handle_portfolio_correlated(args)
       IN  IF r.ok THEN execute_mode_correlated(r.value) ELSE EmitError(r.error)
    /\ UNCHANGED <<args, states, allocations, step, iterations, converged,
                   objective, gradient, improved, accepted_improvement,
                   local_step, attempts, result>>

\* handle_args with -k and no -K among the arguments.
HandlePortfolio ==
    /\ pc = "cli"
    /\ ~HasFlag("-K")
    /\ HasFlag("-k")
    /\ LET r == handle_portfolio(args)
       IN  IF r.ok THEN execute_mode(r.value) ELSE EmitError(r.error)
    /\ UNCHANGED <<args, states, allocations, step, iterations, converged,
                   objective, gradient, improved, accepted_improvement,
                   local_step, attempts, result>>

CliNext ==
    \/ HandlePortfolioCorrelated
    \/ HandlePortfolio

CliSpec == CliInit /\ [][CliNext]_vars

\* ------------------------------------------------- a function call

\* One call of a collaborator function: mode names the function, args are
\* its arguments, result is what it returns.
FunctionCalls ==
    [calculate_arbitrage       |-> { <<a, b>> : a \in OddsTypes, b \in OddsTypes },
     calculate_multi_arbitrage |-> { <<odds>> :
                                       odds \in UNION { [1 .. k -> MultiOddsTypes] :
                                                          k \in 2 .. 3 } },
     calculate_nash_2x2        |-> { <<row, col>> : row \in MatrixTypes,
                                                    col \in MatrixTypes },
     parse_odds                |-> { <<input>> : input \in TextTypes },
     parse_percent             |-> { <<input>> : input \in TextTypes },
     parse_market_price        |-> { <<input>> : input \in TextTypes },
     parse_positive            |-> { <<input>> : input \in TextTypes },
     parse_return_percent      |-> { <<input>> : input \in TextTypes },
     single_leg_kelly_fraction |-> { <<Leg(p, u, d)>> : p \in ProbTypes,
                                                       u \in ReturnTypes,
                                                       d \in ReturnTypes },
     project_to_simplex        |-> { <<values, cap>> :
                                       values \in SeqsUpTo(ValueTypes, MaxValues),
                                       cap \in CapTypes }]

FunctionInit ==
    /\ mode \in DOMAIN FunctionCalls
    /\ args \in FunctionCalls[mode]
    /\ error = ""
    /\ capital = None
    /\ legs = <<>>
    /\ leg_count = 0
    /\ scenarios = <<>>
    /\ states = <<>>
    /\ SetLocalsInit
    /\ pc = "call"
    /\ result = NoResult

\* The function named f returns value.
Return(f, value) ==
    /\ pc = "call"
    /\ mode = f
    /\ result' = value
    /\ pc' = "done"
    /\ UNCHANGED <<inputs, states, locals, cli>>

CalculateArbitrage ==
    Return("calculate_arbitrage", calculate_arbitrage(args[1], args[2]))

CalculateMultiArbitrage ==
    Return("calculate_multi_arbitrage", calculate_multi_arbitrage(args[1]))

CalculateNash ==
    Return("calculate_nash_2x2", calculate_nash_2x2(args[1], args[2]))

ParseOdds == Return("parse_odds", parse_odds(args[1], "value"))

ParsePercent == Return("parse_percent", parse_percent(args[1], "value"))

ParseMarketPrice == Return("parse_market_price", parse_market_price(args[1]))

ParsePositive == Return("parse_positive", parse_positive(args[1], "value"))

ParseReturnPercent ==
    Return("parse_return_percent", parse_return_percent(args[1], "value"))

ProjectToSimplex ==
    Return("project_to_simplex", project_to_simplex(args[1], args[2]))

SingleLegKellyFraction ==
    Return("single_leg_kelly_fraction", single_leg_kelly_fraction(args[1]))

FunctionNext ==
    \/ CalculateArbitrage
    \/ CalculateMultiArbitrage
    \/ CalculateNash
    \/ ParseOdds
    \/ ParsePercent
    \/ ParseMarketPrice
    \/ ParsePositive
    \/ ParseReturnPercent
    \/ ProjectToSimplex
    \/ SingleLegKellyFraction

FunctionSpec == FunctionInit /\ [][FunctionNext]_vars

\* ---------------------------------------------------------------- claims

\* The call has returned a record.
Done == pc = "done"

\* The call ran the loop: there is a leg and a state.
NonEmpty == leg_count > 0 /\ Len(states) > 0

\* p*u + (1-p)*d of a leg.
ExpectedReturn(leg) ==
    Add(Mul(leg.win_prob, leg.win_return),
        Mul(Sub(One, leg.win_prob), leg.loss_return))

\* 1e-8, the threshold below which an allocation counts as zero.
NEAR_ZERO == Norm(172, -34)

\* C1: every returned allocation vector has components >= 0 and a sum of
\* at most MAX_TOTAL_ALLOCATION, and total_allocation is that sum, in
\* [0, MAX_TOTAL_ALLOCATION].
C1_BudgetInvariant ==
    Done =>
        /\ \A i \in 1 .. Len(result.allocations) :
              LessEq(Zero, result.allocations[i])
        /\ LessEq(Sum(result.allocations), MAX_TOTAL_ALLOCATION)
        /\ result.total_allocation = Sum(result.allocations)
        /\ LessEq(Zero, result.total_allocation)
        /\ LessEq(result.total_allocation, MAX_TOTAL_ALLOCATION)

\* C2: the returned worst_case_multiplier is never negative.
C2_WorstCaseNonNegative ==
    Done => LessEq(Zero, result.worst_case_multiplier)

\* The states whose probability exceeds STATE_PROB_EPS.
CountedStates == SelectSeq(states, LAMBDA st : Less(STATE_PROB_EPS, st.prob))

\* The call's result without the states of probability at most STATE_PROB_EPS.
ResultWithoutNegligible ==
    solve_with_states(leg_count, CountedStates,
        IF mode = "independent" THEN initial_allocations_independent(legs)
        ELSE initial_allocations_correlated(leg_count, CountedStates))

\* C3: a state whose probability is at most 1e-15 has no effect: the
\* allocations, expected_log_growth and worst_case_multiplier are those of
\* the call without it (here for calls that keep at least one state).
C3_NegligibleStateIgnored ==
    (Done /\ NonEmpty /\ CountedStates # <<>>) =>
        /\ result.allocations = ResultWithoutNegligible.allocations
        /\ result.expected_log_growth =
              ResultWithoutNegligible.expected_log_growth
        /\ result.worst_case_multiplier =
              ResultWithoutNegligible.worst_case_multiplier

\* C4: for any input the returned allocation is feasible: every state has
\* wealth above 0 and expected_log_growth is finite.
C4_ReturnedAllocationFeasible ==
    (Done /\ NonEmpty) =>
        /\ \A k \in 1 .. Len(states) :
              Less(Zero, state_wealth(result.allocations, states[k].returns))
        /\ IsFinite(result.expected_log_growth)

\* Legs i and j of an independent call have the same parameters.
SameLegs(i, j) == mode = "independent" /\ i # j /\ legs[i] = legs[j]

C5_InitialGuessSymmetric ==
    (mode = "independent" /\ pc = "iterate" /\ iterations = 0) =>
        \A i, j \in 1 .. leg_count :
            SameLegs(i, j) => allocations[i] = allocations[j]

\* A step of the backtracking loop keeps two such allocations equal when
\* the gradient's two components are equal.
C5_StepKeepsSymmetry ==
    (mode = "independent" /\ pc = "backtrack") =>
        \A i, j \in 1 .. leg_count :
            ( /\ SameLegs(i, j)
              /\ allocations[i] = allocations[j]
              /\ gradient[i] = gradient[j] ) =>
                allocations'[i] = allocations'[j]

C6_NegativeEdgeLegGetsNothing ==
    (Done /\ mode = "independent" /\ leg_count = 2) =>
        \A i, j \in 1 .. 2 :
            ( /\ Less(ExpectedReturn(legs[i]), Zero)
              /\ Less(Zero, ExpectedReturn(legs[j])) ) =>
                /\ Less(result.allocations[i], NEAR_ZERO)
                /\ Less(Zero, result.allocations[j])

\* The call has ended, with a record or with a panic.
Returned == pc \in {"done", "panicked"}

\* The bounds of the two loops: at most MAX_ITERATIONS iterations, at most
\* MAX_BACKTRACKS candidates in one of them, and a search without an
\* accepted candidate ends at that bound or below the smallest step.
C7_Bounded ==
    /\ iterations <= MAX_ITERATIONS
    /\ attempts <= MAX_BACKTRACKS
    /\ (pc = "end_iteration" /\ ~improved) =>
          attempts = MAX_BACKTRACKS \/ Less(local_step, MIN_LOCAL_STEP)
    /\ (Done /\ NonEmpty) =>
          1 <= result.iterations /\ result.iterations <= MAX_ITERATIONS

\* The steps a call can still take, counted from above: an iteration is
\* worth MAX_BACKTRACKS + 3 steps (its head, its candidates, its end).
StepsLeft ==
    LET per_iteration == MAX_BACKTRACKS + 3
        iterations_left == (MAX_ITERATIONS - iterations) * per_iteration
    IN  CASE pc = "call"          -> (MAX_ITERATIONS + 1) * per_iteration + 3
          [] pc = "iterate"       -> iterations_left + 2
          [] pc = "backtrack"     -> iterations_left + 3
                                        + (MAX_BACKTRACKS - attempts)
          [] pc = "end_iteration" -> iterations_left + 3
          [] pc = "assemble"      -> 1
          [] OTHER                -> 0

\* The guards of the actions: the call is at a place where one of them acts.
CanStep ==
    \/ pc = "call" /\ mode \in {"independent", "correlated"}
    \/ pc \in {"iterate", "backtrack", "end_iteration", "assemble"}

\* C7: every call ends: the outer loop runs at most MAX_ITERATIONS
\* iterations of at most MAX_BACKTRACKS candidates each, so that every step
\* lowers the count of the steps left, which is never negative, a call that
\* has not returned can take a step, and for a call with a leg and a state
\* the reported iterations are between 1 and MAX_ITERATIONS.
C7_Terminates ==
    /\ []C7_Bounded
    /\ [](StepsLeft >= 0)
    /\ [][StepsLeft' < StepsLeft]_vars
    /\ [](Returned \/ CanStep)

\* C7's case: a call that used the whole iteration budget.
C7_Witness ==
    /\ Done /\ NonEmpty
    /\ result.iterations = MAX_ITERATIONS
    /\ ~result.converged

\* The last iteration's search ended without an accepted candidate or
\* with an accepted improvement below CONVERGENCE_OBJECTIVE_DELTA.
SearchStalled ==
    ~improved \/ Less(accepted_improvement, CONVERGENCE_OBJECTIVE_DELTA)

C8_AfterLoop ==
    (pc \in {"assemble", "done"} /\ NonEmpty) =>
        /\ converged <=> (IsFinite(objective) /\ SearchStalled)
        /\ (~converged /\ IsFinite(objective)) => iterations = MAX_ITERATIONS
        /\ Done => /\ result.converged = converged
                   /\ result.iterations = iterations

\* An iteration that accepted an improvement of at least
\* CONVERGENCE_OBJECTIVE_DELTA is followed by another one, or by the end of
\* the loop without convergence when the budget is used up.
C8_AcceptedStepContinues ==
    (pc = "end_iteration" /\ ~SearchStalled) =>
        /\ ~converged'
        /\ pc' = IF iterations < MAX_ITERATIONS THEN "iterate" ELSE "assemble"

C9_DefaultRecord ==
    (Done /\ ~NonEmpty) =>
        /\ Len(result.allocations) = leg_count
        /\ \A i \in 1 .. leg_count : result.allocations[i] = Zero
        /\ result.total_allocation = Zero
        /\ result.expected_log_growth = Zero
        /\ result.expected_arithmetic_return = Zero
        /\ result.worst_case_multiplier = One
        /\ result.converged
        /\ result.iterations = 0
        /\ iterations = 0 /\ attempts = 0 /\ allocations = <<>>

\* C9's case: a correlated call with legs and no scenario.
C9_Witness ==
    /\ Done
    /\ mode = "correlated" /\ leg_count > 0 /\ scenarios = <<>>
    /\ result.iterations = 0

\* A scenario of the kind the claim lists as rejected: a negative or
\* non-finite probability, a length other than leg_count, a non-finite
\* return.
Rejected(sc) ==
    \/ sc.probability[1] < 0
    \/ sc.probability[2] = InfExp
    \/ Len(sc.returns) # leg_count
    \/ \E i \in 1 .. Len(sc.returns) : sc.returns[i][2] = InfExp

\* C10: a correlated call either panics without a result, when a scenario
\* has a negative or non-finite probability, a wrong number of returns or a
\* non-finite return, or builds one state per scenario, in order, with the
\* scenario's probability and returns unchanged.
C10_ScenariosUnchanged ==
    (mode = "correlated" /\ pc # "call") =>
        IF \E k \in 1 .. Len(scenarios) : Rejected(scenarios[k])
        THEN pc = "panicked" /\ result = NoResult /\ states = <<>>
        ELSE /\ pc # "panicked"
             /\ Len(states) = Len(scenarios)
             /\ \A k \in 1 .. Len(scenarios) :
                   /\ states[k].prob = scenarios[k].probability
                   /\ states[k].returns = scenarios[k].returns

\* C10's case: a correlated call answered for two scenarios whose
\* probabilities do not add up to 1.
C10_Witness ==
    /\ Done /\ mode = "correlated"
    /\ Len(scenarios) = 2 /\ Len(states) = 2
    /\ scenarios[1] # scenarios[2]
    /\ Add(states[1].prob, states[2].prob) # One

\* Every leg of an independent call pays the same positive return whether
\* it wins or loses.
AllDeterministicPositive ==
    /\ mode = "independent" /\ leg_count > 0
    /\ \A i \in 1 .. leg_count :
          /\ legs[i].win_return = legs[i].loss_return
          /\ Less(Zero, legs[i].win_return)

\* Four units of rounding of 1.0: the distance taken for "approximately",
\* and the smallest return whose gain at the cap is certain to show in
\* 1 + gain.
FOUR_EPSILON == Norm(1, 2 - Precision)

\* C11 as stated: with deterministic positive returns the total allocation
\* is approximately the cap and worst_case_multiplier is above 1.
C11_DeterministicAboveOne ==
    (Done /\ AllDeterministicPositive) =>
        /\ LessEq(FAbs(Sub(result.total_allocation, MAX_TOTAL_ALLOCATION)),
                  FOUR_EPSILON)
        /\ Less(One, result.worst_case_multiplier)

\* C11, amended: with deterministic positive returns the total allocation
\* is approximately the cap and worst_case_multiplier is the rounded
\* 1 + sum of f_i * u_i: at least 1, and above 1 when every return is at
\* least four units of rounding of 1.0.
C11_DeterministicAtLeastOne ==
    (Done /\ AllDeterministicPositive) =>
        /\ LessEq(FAbs(Sub(result.total_allocation, MAX_TOTAL_ALLOCATION)),
                  FOUR_EPSILON)
        /\ LessEq(One, result.worst_case_multiplier)
        /\ \A k \in 1 .. Len(states) :
              Less(STATE_PROB_EPS, states[k].prob) =>
                 result.worst_case_multiplier =
                    state_wealth(result.allocations, states[k].returns)
        /\ (\A i \in 1 .. leg_count :
               LessEq(FOUR_EPSILON, legs[i].win_return)) =>
              Less(One, result.worst_case_multiplier)

\* C11's case: two legs with different deterministic positive returns and
\* a worst case above 1.
C11_Witness ==
    /\ Done /\ AllDeterministicPositive /\ leg_count = 2
    /\ legs[1].win_return # legs[2].win_return
    /\ result.converged
    /\ Less(One, result.worst_case_multiplier)

\* 0.5
Half == Norm(1, -1)

\* A correlated call for two legs and two scenarios of probability 0.5.
TwoEvenScenarios ==
    /\ mode = "correlated" /\ leg_count = 2 /\ Len(scenarios) = 2
    /\ scenarios[1].probability = Half /\ scenarios[2].probability = Half
    /\ Len(scenarios[1].returns) = 2 /\ Len(scenarios[2].returns) = 2

\* Leg A wins exactly when leg B loses, with the same win and loss returns.
AntiCorrelated ==
    /\ TwoEvenScenarios
    /\ scenarios[2].returns[1] = scenarios[1].returns[2]
    /\ scenarios[2].returns[2] = scenarios[1].returns[1]
    /\ \/ Less(scenarios[1].returns[2], Zero) /\ Less(Zero, scenarios[1].returns[1])
       \/ Less(scenarios[1].returns[1], Zero) /\ Less(Zero, scenarios[1].returns[2])

\* The two legs of such a call taken as independent: win probability 0.5,
\* the larger return on a win, the smaller on a loss.
MarginalLegs ==
    LET a == scenarios[1].returns[1]
        b == scenarios[2].returns[1]
        l == Leg(Half, FMax(a, b), FMin(a, b))
    IN  <<l, l>>

\* What calculate_portfolio_kelly returns for the marginal legs.
IndependentResult ==
    solve_with_states(2, enumerate_independent_states(MarginalLegs),
                      initial_allocations_independent(MarginalLegs))

\* C12 as stated: for perfectly anti-correlated legs the correlated call
\* returns equal, strictly positive allocations, each larger than the
\* independent call's for the same marginal odds.
C12_AntiCorrelatedLarger ==
    (Done /\ AntiCorrelated) =>
        /\ result.allocations[1] = result.allocations[2]
        /\ Less(Zero, result.allocations[1])
        /\ \A i \in 1 .. 2 :
              Less(IndependentResult.allocations[i], result.allocations[i])

\* C12, amended: for perfectly anti-correlated legs the correlated call
\* returns equal allocations, strictly positive exactly when the legs'
\* expected return is positive; when its total reaches the cap (within
\* rounding) no allocation of the independent call for the same marginal
\* odds exceeds the correlated one by more than rounding.
C12_AntiCorrelatedEqual ==
    (Done /\ AntiCorrelated) =>
        /\ result.allocations[1] = result.allocations[2]
        /\ Less(Zero, result.allocations[1]) <=>
              Less(Zero, ExpectedReturn(MarginalLegs[1]))
        /\ LessEq(Sub(MAX_TOTAL_ALLOCATION, FOUR_EPSILON),
                  result.total_allocation) =>
              \A i \in 1 .. 2 :
                 LessEq(IndependentResult.allocations[i],
                        Add(result.allocations[i], FOUR_EPSILON))

\* C12's case: anti-correlated legs with positive expected return, after
\* the loop moved the allocation up to the cap.
C12_Witness ==
    /\ Done /\ AntiCorrelated
    /\ Less(Zero, ExpectedReturn(MarginalLegs[1]))
    /\ result.iterations > 1
    /\ LessEq(Sub(MAX_TOTAL_ALLOCATION, FOUR_EPSILON), result.total_allocation)

\* The two legs win together in one scenario and lose together in the
\* other.
CoMoving ==
    /\ mode = "correlated" /\ leg_count = 2 /\ Len(scenarios) = 2
    /\ Len(scenarios[1].returns) = 2 /\ Len(scenarios[2].returns) = 2
    /\ IsFinite(scenarios[1].probability)
    /\ Less(Zero, scenarios[1].probability)
    /\ scenarios[2].probability = Sub(One, scenarios[1].probability)
    /\ \E w \in 1 .. 2 :
          /\ \A i \in 1 .. 2 : Less(Zero, scenarios[w].returns[i])
          /\ \A i \in 1 .. 2 : Less(scenarios[3 - w].returns[i], Zero)

\* The winning scenario of a co-moving pair.
WinScenario ==
    IF Less(Zero, scenarios[1].returns[1]) THEN scenarios[1] ELSE scenarios[2]

\* The losing scenario of a co-moving pair.
LossScenario ==
    IF Less(Zero, scenarios[1].returns[1]) THEN scenarios[2] ELSE scenarios[1]

\* The legs of a co-moving pair taken as independent, with the same
\* marginal probabilities and returns.
CoMovingMarginalLegs ==
    [i \in 1 .. 2 |->
        Leg(WinScenario.probability, WinScenario.returns[i],
            LossScenario.returns[i])]

\* What calculate_portfolio_kelly returns for them.
CoMovingIndependentResult ==
    solve_with_states(2, enumerate_independent_states(CoMovingMarginalLegs),
                      initial_allocations_independent(CoMovingMarginalLegs))

EvenOddsBet == Leg(Norm(154, -8), One, Neg(One))

\* 0.2 (rounded), the closed-form Kelly fraction of that bet.
ONE_FIFTH == Norm(205, -10)

\* The distance taken for "about": 2^-6.
ABOUT == Norm(1, -6)

\* C14: for two independent odds-2 bets with win probability 0.6 the call
\* returns an allocation of about 0.2 for each leg, a total allocation
\* below 1.0 and a worst_case_multiplier above 0.
C14_EvenOddsExample ==
    (Done /\ mode = "independent" /\ legs = <<EvenOddsBet, EvenOddsBet>>) =>
        /\ \A i \in 1 .. 2 :
              LessEq(FAbs(Sub(result.allocations[i], ONE_FIFTH)), ABOUT)
        /\ Less(result.total_allocation, One)
        /\ Less(Zero, result.worst_case_multiplier)

\* C14's case: the call for the two bets has returned, converged, after
\* more than one iteration.
C14_Witness ==
    /\ Done /\ mode = "independent" /\ legs = <<EvenOddsBet, EvenOddsBet>>
    /\ result.converged
    /\ result.iterations > 1

\* C15: a result with converged = false, which the renderer reports as
\* "reached the iteration limit", is one of a call that executed all
\* MAX_ITERATIONS iterations.
C15_NotConvergedMeansLimit ==
    (Done /\ ConvergenceStatus(result) = "reached the iteration limit") =>
        result.iterations = MAX_ITERATIONS

\* ------------------------------------------------------------ C16

\* C16: the command-line handlers call the optimizer only with 2 to 12 legs
\* (handle_portfolio, both forms) or with 1 to 12 legs, 2 to 128 scenarios
\* and exactly leg_count returns in every scenario
\* (handle_portfolio_correlated); every other argument list ends in an error
\* message and no call.
C16_CallsAreBounded ==
    /\ pc \in {"cli", "call", "error"}
    /\ pc = "cli" => mode = "none" /\ error = ""
    /\ pc = "call" => error = "" /\ mode \in {"independent", "correlated"}
    /\ pc = "call" /\ mode = "independent" =>
          /\ ~HasFlag("-K")
          /\ leg_count = Len(legs)
          /\ leg_count \in 2 .. 12
    /\ pc = "call" /\ mode = "correlated" =>
          /\ HasFlag("-K")
          /\ leg_count \in 1 .. 12
          /\ Len(scenarios) \in 2 .. 128
          /\ \A s \in 1 .. Len(scenarios) :
                 Len(scenarios[s].returns) = leg_count
    /\ pc = "error" =>
          /\ error # ""
          /\ mode = "none"
          /\ legs = <<>>
          /\ scenarios = <<>>

\* A correlated call at both upper limits.
C16_Witness ==
    /\ pc = "call"
    /\ mode = "correlated"
    /\ leg_count = 12
    /\ Len(scenarios) = 128

\* ------------------------------------------------------------ C17

\* The odds of a returned arbitrage call, and the sum of their implied
\* probabilities 1/odds.
ArbitrageReturned ==
    pc = "done" /\ mode \in {"calculate_arbitrage", "calculate_multi_arbitrage"}

OddsOfCall == IF mode = "calculate_arbitrage" THEN args ELSE args[1]

ImpliedSum == F64Sum([i \in 1 .. Len(OddsOfCall) |-> F64Div(One, OddsOfCall[i])])

StakeRatios ==
    IF mode = "calculate_arbitrage"
    THEN <<result.stake1_ratio, result.stake2_ratio>>
    ELSE result.stake_ratios

\* C17: calculate_arbitrage and calculate_multi_arbitrage report
\* has_arbitrage exactly when the sum of the implied probabilities 1/odds is
\* below 1; then arbitrage_profit = 1/sum - 1, juice_rate = 0 and the stake
\* ratios sum to 1; otherwise arbitrage_profit = 0, juice_rate = sum - 1 and
\* every stake ratio is 0.
C17_ArbitrageReport ==
    ArbitrageReturned =>
        /\ result.has_arbitrage <=> Lt(ImpliedSum, One)
        /\ result.has_arbitrage =>
              /\ result.arbitrage_profit = F64Sub(F64Div(One, ImpliedSum), One)
              /\ result.juice_rate = Zero
              /\ F64Sum(StakeRatios) = One
        /\ ~result.has_arbitrage =>
              /\ result.arbitrage_profit = Zero
              /\ result.juice_rate = F64Sub(ImpliedSum, One)
              /\ \A i \in 1 .. Len(StakeRatios) : StakeRatios[i] = Zero

\* ------------------------------------------------------------ C18

NashReturned == pc = "done" /\ mode = "calculate_nash_2x2"

\* a is at least b, within 1e-10.
AtLeastWithin(a, b) == Ge(a, F64Sub(b, EPS))

\* The cell (i, j) is in the list of pure equilibria.
Listed(i, j) ==
    \E k \in 1 .. Len(result.pure_equilibria) :
        /\ result.pure_equilibria[k].row_strategy = i
        /\ result.pure_equilibria[k].col_strategy = j

\* The denominator of a player's indifference probability: the payoffs of
\* the diagonal minus the payoffs off the diagonal.
IndifferenceDenominator(m) ==
    F64Add(F64Sub(F64Sub(m[1][1], m[1][2]), m[2][1]), m[2][2])

Within01(v) == Ge(v, Neg(EPS)) /\ Le(v, F64Add(One, EPS))

\* C18: calculate_nash_2x2 lists the cell (i, j) as a pure equilibrium
\* exactly when the row payoff there is at least the one at (1-i, j) and the
\* column payoff at least the one at (i, 1-j), both within 1e-10; it returns
\* a mixed equilibrium only when both indifference probabilities exist (the
\* denominators are not 0) and lie in [0, 1] (within 1e-10, returned
\* clamped into [0, 1]); the prisoner's dilemma has the one pure equilibrium
\* (1, 1), the coordination game two, matching pennies none and the mixed
\* equilibrium (0.5, 0.5).
C18_NashEquilibria ==
    NashReturned =>
        LET row   == args[1]
            col   == args[2]
            mixed == result.mixed_equilibrium
        IN  /\ \A i \in 0 .. 1, j \in 0 .. 1 :
                   Listed(i, j) <=>
                       /\ AtLeastWithin(row[i + 1][j + 1], row[2 - i][j + 1])
                       /\ AtLeastWithin(col[i + 1][j + 1], col[i + 1][2 - j])
            /\ Len(result.pure_equilibria) <= 4
            /\ mixed.some =>
                   /\ IndifferenceDenominator(row) # Zero
                   /\ IndifferenceDenominator(col) # Zero
                   /\ Within01(F64Div(F64Sub(row[2][2], row[1][2]),
                                      IndifferenceDenominator(row)))
                   /\ Within01(F64Div(F64Sub(col[2][2], col[2][1]),
                                      IndifferenceDenominator(col)))
                   /\ Le(Zero, mixed.value.row_top_prob)
                   /\ Le(mixed.value.row_top_prob, One)
                   /\ Le(Zero, mixed.value.col_left_prob)
                   /\ Le(mixed.value.col_left_prob, One)
            /\ row = PRISONER_ROW /\ col = PRISONER_COL =>
                   /\ Len(result.pure_equilibria) = 1
                   /\ Listed(1, 1)
            /\ row = COORDINATION /\ col = COORDINATION =>
                   Len(result.pure_equilibria) = 2
            /\ row = PENNIES_ROW /\ col = PENNIES_COL =>
                   /\ Len(result.pure_equilibria) = 0
                   /\ mixed.some
                   /\ mixed.value.row_top_prob = Norm(1, -1)
                   /\ mixed.value.col_left_prob = Norm(1, -1)

\* Matching pennies has returned its mixed equilibrium.
C18_Witness ==
    /\ NashReturned
    /\ args = <<PENNIES_ROW, PENNIES_COL>>
    /\ result.mixed_equilibrium.some
    /\ result.pure_equilibria = <<>>

\* ------------------------------------------------------------ C19

Parsers ==
    {"parse_odds", "parse_percent", "parse_market_price", "parse_positive",
     "parse_return_percent"}

ParserReturned == pc = "done" /\ mode \in Parsers

\* The text is a number, and the number it is.
IsNumber(input) == str_parse_f64(input).ok

NumberOf(input) == str_parse_f64(input).value

\* The parser accepted exactly under the condition in_range and returned
\* the value expected; a rejection is an error message and no value.
ParserAccepts(in_range, expected) ==
    /\ result.ok <=> IsNumber(args[1]) /\ in_range
    /\ result.ok => result.value = expected
    /\ ~result.ok => DOMAIN result = {"ok", "error"} /\ result.error # ""

\* C19: every parser accepts exactly its documented range and otherwise
\* returns an error and no value: parse_odds a number above 1.0, parse_percent
\* one in [0, 100] (returning it over 100), parse_market_price one in
\* (0, 100] (returning it over 100), parse_positive one above 0,
\* parse_return_percent one whose hundredth is at least -1, so that -100 is
\* accepted as -1.0 and a number below -100 is rejected.
C19_ParsersAcceptDocumentedRange ==
    ParserReturned =>
        LET v == NumberOf(args[1])
        IN  /\ mode = "parse_odds" => ParserAccepts(Gt(v, One), v)
            /\ mode = "parse_percent" =>
                   ParserAccepts(Ge(v, Zero) /\ Le(v, HUNDRED),
                                 F64Div(v, HUNDRED))
            /\ mode = "parse_market_price" =>
                   ParserAccepts(Gt(v, Zero) /\ Le(v, HUNDRED),
                                 F64Div(v, HUNDRED))
            /\ mode = "parse_positive" => ParserAccepts(Gt(v, Zero), v)
            /\ mode = "parse_return_percent" =>
                   /\ ParserAccepts(Ge(F64Div(v, HUNDRED), Neg(One)),
                              F64Div(v, HUNDRED))
                   /\ args[1] = NumArg(FromInt(-100)) => result = Ok(Neg(One))
                   /\ args[1] = NumArg(Norm(-201, -1)) => ~result.ok

\* ------------------------------------------------------------ C20

\* The bitmask of the combination in which exactly the legs of W win: bit
\* i - 1 for the i-th leg.
RECURSIVE MaskOf(_)
MaskOf(W) ==
    IF W = {} THEN 0
    ELSE LET i == CHOOSE j \in W : TRUE
         IN  2^(i - 1) + MaskOf(W \ {i})

\* The factor of each leg when exactly the legs of W win.
Factors(W) ==
    [i \in 1 .. Len(legs) |->
        IF i \in W THEN legs[i].win_prob ELSE Sub(One, legs[i].win_prob)]

\* The product of the first k factors, multiplied in order from 1.0.
RECURSIVE ProductTo(_, _)
ProductTo(factors, k) ==
    IF k = 0 THEN One ELSE Mul(ProductTo(factors, k - 1), factors[k])

IndependentStatesBuilt == mode = "independent" /\ pc # "call"

\* C20: for N independent legs the states are exactly 2^N, one for each
\* combination of wins and losses: the state of the combination's bitmask
\* gives each winning leg its win_return and each losing leg its
\* loss_return, and its probability is the product of win_prob over the
\* winning legs and 1 - win_prob over the losing ones.
C20_OneStatePerCombination ==
    IndependentStatesBuilt =>
        /\ Len(states) = 2^Len(legs)
        /\ \A V, W \in SUBSET (1 .. Len(legs)) :
               V # W => MaskOf(V) # MaskOf(W)
        /\ \A W \in SUBSET (1 .. Len(legs)) :
               /\ MaskOf(W) + 1 \in 1 .. Len(states)
               /\ states[MaskOf(W) + 1].returns =
                      [i \in 1 .. Len(legs) |->
                          IF i \in W THEN legs[i].win_return
                          ELSE legs[i].loss_return]
               /\ states[MaskOf(W) + 1].prob =
                      ProductTo(Factors(W), Len(legs))

\* C20's case: the four states of two different legs have been built, and
\* the state in which only the second leg wins is the third.
C20_Witness ==
    /\ IndependentStatesBuilt
    /\ Len(legs) = 2
    /\ legs[1] # legs[2]
    /\ Len(states) = 4
    /\ states[3].returns = <<legs[1].loss_return, legs[2].win_return>>
    /\ states[3].returns # states[2].returns

\* ------------------------------------------------------------ C21

\* The variable objective is the evaluator's value at the variable
\* allocations: in the backtracking loop, and after the loop when no
\* candidate was accepted since the evaluation.
ObjectiveEvaluated ==
    \/ pc = "backtrack"
    \/ pc = "assemble" /\ (~improved \/ ~IsFinite(objective))

\* Some state of positive probability has no wealth left.
RuinedWithPositiveProbability ==
    \E k \in 1 .. Len(states) :
        /\ Less(Zero, states[k].prob)
        /\ LessEq(state_wealth(allocations, states[k].returns), Zero)

\* C21: the evaluator reports the allocation as infeasible (objective
\* -infinity) exactly when some state of positive probability has wealth
\* 1 + dot(f, returns) <= 0; a state of probability 0 never makes an
\* allocation infeasible.
C21_InfeasibleIffRuinPossible ==
    ObjectiveEvaluated =>
        (objective = NEG_INFINITY <=> RuinedWithPositiveProbability)

\* ------------------------------------------------------------ C22

ProjectionReturned == pc = "done" /\ mode = "project_to_simplex"

\* v with every negative component replaced by 0.0.
Clamped(v) == [i \in 1 .. Len(v) |-> IF Less(v[i], Zero) THEN Zero ELSE v[i]]

\* C22: project_to_simplex(v, cap) returns a vector of the length of v with
\* every component >= 0 and a sum <= cap; when the components of v clamped
\* at zero already sum to at most cap, it returns exactly the clamped
\* vector, so a non-negative v within the cap is returned unchanged.
C22_ProjectionWithinCap ==
    ProjectionReturned =>
        LET v   == args[1]
            cap == args[2]
        IN  /\ Len(result) = Len(v)
            /\ \A i \in 1 .. Len(result) : LessEq(Zero, result[i])
            /\ LessEq(Sum(result), cap)
            /\ LessEq(Sum(Clamped(v)), cap) => result = Clamped(v)
            /\ (\A i \in 1 .. Len(v) : LessEq(Zero, v[i]))
                   /\ LessEq(Sum(v), cap) => result = v

\* ------------------------------------------------------------ C23

\* The shift that brings the k largest components of v down to the sum cap.
ShiftOf(v, cap, k) == Div(Sub(SumTo(SortDesc(v), k), cap), FromInt(k))

\* C23: when the components of v clamped at zero sum to more than cap,
\* project_to_simplex returns max(v_i - theta, 0) for every i with one
\* common shift theta > 0, and the returned vector sums to exactly cap: the
\* point of x >= 0, sum(x) <= cap nearest to v.
C23_ProjectionOntoCap ==
    ProjectionReturned /\ Less(args[2], Sum(Clamped(args[1]))) =>
        /\ \E k \in 1 .. Len(args[1]) :
               /\ Less(Zero, ShiftOf(Clamped(args[1]), args[2], k))
               /\ result =
                      [i \in 1 .. Len(args[1]) |->
                          FMax(Sub(args[1][i],
                                   ShiftOf(Clamped(args[1]), args[2], k)),
                               Zero)]
        /\ Sum(result) = args[2]

\* ------------------------------------------------------------ C24

\* The candidate of the pass of the backtracking loop about to run.
CandidateNow ==
    project_to_simplex(
        [i \in 1 .. Len(allocations) |->
            Add(allocations[i], Mul(local_step, gradient[i]))],
        MAX_TOTAL_ALLOCATION)

\* The evaluator's value at the allocation of the next state.
ObjectiveAfter == objective_and_gradient(allocations', states).objective

\* C24: the optimizer replaces its allocation only by a projected candidate
\* whose objective is finite and exceeds the objective of the current
\* allocation by more than 1e-12, at most once in an iteration; a rejected
\* candidate leaves the allocation unchanged; so the objective of the
\* current allocation strictly increases from each iteration to the next,
\* and an infeasible candidate is never accepted.
C24_OnlyImprovingCandidates ==
    [][/\ pc # "call" /\ allocations' # allocations =>
              /\ pc = "backtrack"
              /\ ~improved /\ improved'
              /\ pc' = "end_iteration"
              /\ allocations' = CandidateNow
              /\ IsFinite(ObjectiveAfter)
              /\ Less(Add(objective, IMPROVEMENT_EPS), ObjectiveAfter)
       /\ pc = "backtrack" /\ ~improved' => allocations' = allocations
       /\ pc = "iterate" /\ iterations > 0 =>
              /\ IsFinite(objective')
              /\ Less(objective, objective')]_vars

\* C24's case: a candidate has been accepted in an iteration after the
\* first, at a trial step that earlier candidates of the iteration had
\* halved.
C24_Witness ==
    /\ pc = "end_iteration"
    /\ improved
    /\ iterations >= 2
    /\ attempts >= 2

\* ------------------------------------------------------------ C25

\* C25: the step size starts at 0.25; within an iteration every rejected
\* candidate halves the trial step, and the retries stop after 24
\* candidates or as soon as the trial step is below 1e-10; a candidate
\* accepted at trial step s makes the next iteration start with step
\* min(1.0, 1.15 * s); so the step size with which an iteration starts is
\* always in (0, 1.0].
C25_StepSchedule ==
    [][/\ pc = "call" /\ pc' = "iterate" => step' = Norm(1, -2)
       /\ pc = "iterate" /\ pc' = "backtrack" =>
              /\ local_step' = step
              /\ attempts' = 0
              /\ Less(Zero, step) /\ LessEq(step, One)
       /\ pc = "backtrack" /\ ~improved' =>
              /\ local_step' = Mul(local_step, Norm(1, -1))
              /\ step' = step
              /\ attempts' = attempts + 1
              /\ pc' = "backtrack" <=>
                     /\ attempts' < 24
                     /\ ~Less(local_step', MIN_LOCAL_STEP)
       /\ pc = "backtrack" /\ improved' =>
              /\ step' = FMin(One, Mul(Norm(147, -7), local_step))
              /\ Less(Zero, step') /\ LessEq(step', One)
       /\ pc \in {"end_iteration", "assemble"} => step' = step]_vars

\* The 24 candidates of an iteration are used up while the trial step is
\* still above 1e-10, in an iteration that started below 0.25.
C25_AllCandidatesUsed ==
    /\ pc = "end_iteration"
    /\ ~improved
    /\ attempts = 24
    /\ ~Less(local_step, MIN_LOCAL_STEP)
    /\ Less(step, Norm(1, -2))

\* C25's case: after accepted candidates have set the step, the retries of
\* an iteration have stopped before the 24th candidate, at a trial step
\* below 1e-10.
C25_Witness ==
    /\ pc = "end_iteration"
    /\ ~improved
    /\ attempts < 24
    /\ Less(local_step, MIN_LOCAL_STEP)

\* ------------------------------------------------------------ C26

KellyReturned == pc = "done" /\ mode = "single_leg_kelly_fraction"

\* Equality within 1e-12.
Within(x, y) ==
    Lt(F64Sub(x, y), Norm(141, -47)) /\ Lt(F64Sub(y, x), Norm(141, -47))

\* -(p*u + (1-p)*d) / (u*d)
ClosedForm(p, u, d) ==
    F64Div(Neg(F64Add(F64Mul(p, u), F64Mul(F64Sub(One, p), d))),
           F64Mul(u, d))

\* The fraction the claim gives a leg.
FractionOf(p, u, d) ==
    IF Within(u, d) THEN (IF Gt(u, Zero) THEN MAX_TOTAL_ALLOCATION ELSE Zero)
    ELSE IF Within(u, Zero) \/ Within(d, Zero) THEN Zero
    ELSE IF ~IsFinite(ClosedForm(p, u, d)) \/ ~Gt(ClosedForm(p, u, d), Zero)
         THEN Zero
    ELSE ClosedForm(p, u, d)

\* C26: the initial guess of a leg in independent mode, before the
\* projection, is the cap 0.999999 if u = d and u > 0, zero if u = d and
\* u <= 0, zero if u = 0 or d = 0, and otherwise
\* f = -(p*u + (1-p)*d) / (u*d), replaced by zero when f is not positive or
\* not finite (u = win_return, d = loss_return, p = win_prob, equality
\* within 1e-12).
C26_SingleLegFraction ==
    KellyReturned =>
        result = FractionOf(args[1].win_prob, args[1].win_return,
                            args[1].loss_return)

\* C26's case: the closed form has been returned for a leg with an edge,
\* below the cap.
C26_Witness ==
    /\ KellyReturned
    /\ args[1] = Leg(Norm(154, -8), One, Neg(One))
    /\ Less(Zero, result)
    /\ Less(result, Norm(1, -2))

\* ------------------------------------------------------------ C27

\* p*u + (1-p)*d, of a leg whose returns may be infinite.
ExpectedReturnOf(leg) ==
    F64Add(F64Mul(leg.win_prob, leg.win_return),
           F64Mul(F64Sub(One, leg.win_prob), leg.loss_return))

\* C27: in the initial guess of independent mode a leg without edge gets no
\* allocation: every leg whose expected return p*u + (1-p)*d is not
\* positive starts with a fraction of zero.
C27_NoEdgeNoAllocation ==
    KellyReturned /\ ~Gt(ExpectedReturnOf(args[1]), Zero) => result = Zero

\* ------------------------------------------------------------ C28

\* The correlated call has built its initial guess and no iteration has
\* begun.
CorrelatedGuessMade == mode = "correlated" /\ pc = "iterate" /\ iterations = 0

\* The sum over the scenarios of probability * return of leg i.
WeightedReturn(i) ==
    Sum([k \in 1 .. Len(scenarios) |->
            Mul(scenarios[k].probability, scenarios[k].returns[i])])

\* C28: the initial guess of correlated mode gives leg i the value
\* max(0, sum over the scenarios of probability * return_i) and projects
\* the vector onto the simplex with cap 0.999999; so every leg whose
\* probability-weighted return is not positive starts at zero, and the
\* starting allocation sums to at most the cap.
C28_CorrelatedGuess ==
    CorrelatedGuessMade =>
        /\ allocations =
               project_to_simplex(
                   [i \in 1 .. leg_count |-> FMax(Zero, WeightedReturn(i))],
                   MAX_TOTAL_ALLOCATION)
        /\ \A i \in 1 .. leg_count :
               LessEq(WeightedReturn(i), Zero) => allocations[i] = Zero
        /\ LessEq(Sum(allocations), MAX_TOTAL_ALLOCATION)

\* ------------------------------------------------------------ C29

\* The states whose probability exceeds 1e-15.
Significant == { k \in 1 .. Len(states) : Less(STATE_PROB_EPS, states[k].prob) }

\* 1 + dot(f, returns) of state k at the returned allocation.
WealthAtResult(k) ==
    Add(One, Sum([i \in 1 .. leg_count |->
                     Mul(result.allocations[i], states[k].returns[i])]))

ResultOfNonEmpty == pc = "done" /\ NonEmpty

\* C29: for a non-empty input worst_case_multiplier is the minimum of
\* 1 + dot(f, returns_s) over the states of probability above 1e-15, at the
\* returned allocation f, and 0 when there is no such state; it is never
\* +infinity, and it is at most 1 whenever such a state has no positive
\* return.
C29_WorstCaseIsMinimum ==
    ResultOfNonEmpty =>
        /\ Significant = {} => result.worst_case_multiplier = Zero
        /\ Significant # {} =>
               /\ \E k \in Significant :
                      result.worst_case_multiplier = WealthAtResult(k)
               /\ \A k \in Significant :
                      LessEq(result.worst_case_multiplier, WealthAtResult(k))
        /\ result.worst_case_multiplier # INFINITY
        /\ (\E k \in Significant :
                \A i \in 1 .. leg_count : LessEq(states[k].returns[i], Zero))
               => LessEq(result.worst_case_multiplier, One)

\* C29's case: a result whose worst case comes from a state of
\* probability above 1e-15, while a state of probability at most 1e-15
\* would have been worse.
C29_Witness ==
    /\ ResultOfNonEmpty
    /\ Significant # {}
    /\ \E k \in 1 .. Len(states) :
           /\ k \notin Significant
           /\ Less(WealthAtResult(k), result.worst_case_multiplier)

\* ------------------------------------------------------------ C30

\* No leg and no scenario can lose more than the stake.
ReturnsAtLeastMinusOne ==
    /\ \A i \in 1 .. Len(legs) :
           /\ LessEq(Neg(One), legs[i].win_return)
           /\ LessEq(Neg(One), legs[i].loss_return)
    /\ \A k \in 1 .. Len(scenarios) :
           \A i \in 1 .. Len(scenarios[k].returns) :
               LessEq(Neg(One), scenarios[k].returns[i])

\* The optimizer holds an allocation: from the initial guess to the result.
HoldsAllocation ==
    pc \in {"iterate", "backtrack", "end_iteration", "assemble", "done"}
        /\ NonEmpty

\* C30: when every return of every leg and scenario is >= -1, every
\* allocation the optimizer holds leaves wealth >= 1 - 0.999999 > 0 in
\* every state: the objective at the current allocation is always finite,
\* the stop on a non-finite objective is never taken, and the returned
\* worst_case_multiplier is strictly positive.
C30_NeverRuined ==
    ReturnsAtLeastMinusOne /\ HoldsAllocation =>
        /\ \A k \in 1 .. Len(states) :
               LessEq(Sub(One, MAX_TOTAL_ALLOCATION),
                      state_wealth(allocations, states[k].returns))
        /\ pc \in {"backtrack", "end_iteration", "assemble", "done"} =>
               IsFinite(objective)
        /\ pc = "done" =>
               /\ IsFinite(result.expected_log_growth)
               /\ Less(Zero, result.worst_case_multiplier)

====
